---------------------------- MODULE Spec2Model ----------------------------
(***************************************************************************)
(* Event-driven notification system: the Event Processor (consumer loop    *)
(* and EventHandler.handle) and the Delivery Engine (send_notification,    *)
(* RateLimiter.acquire) over the shared notification store, work queue,    *)
(* status topic and rate-limit store.                                      *)
(***************************************************************************)
EXTENDS Integers, Sequences, FiniteSets, Bags, TLC

(***************************************************************************)
(* Bounds of the model.                                                    *)
(***************************************************************************)
LogLen == 2          \* records in the domain-event partition
MaxRebalance == 2    \* partition (re)assignments explored
MaxFaults == 3       \* injected store / broker / provider faults explored

(***************************************************************************)
(* Program constants.                                                      *)
(***************************************************************************)
MAX_HANDLER_RETRIES == 3
DefaultMaxAttempts == 3

NoTime == 0 - 1      \* a NULL timestamp column / no eta
NoReason == "null"   \* a NULL failed_reason column

Channels == {"email", "sms", "push"}
\* get_active_templates_for_event orders by channel (string order)
ChannelOrder == <<"email", "push", "sms">>

KnownEventTypes == {"user.registered", "order.completed", "payment.failed"}

_PRIORITY_MAP ==
  [t \in KnownEventTypes |->
     CASE t = "user.registered" -> "normal"
       [] t = "order.completed" -> "high"
       [] t = "payment.failed" -> "critical"]

\* a variant that ignores the map (every known type gets "normal")
get_priority_Flat(event_type) ==
  IF event_type \in DOMAIN _PRIORITY_MAP THEN "normal"
  ELSE "ValueError"

get_priority(event_type) ==
  IF event_type \in DOMAIN _PRIORITY_MAP THEN _PRIORITY_MAP[event_type]
  ELSE "ValueError"

\* parse_event: ValueError when metadata.event_type is missing or unknown, or
\* when the typed model rejects the payload.  "[unhashable]" stands for an
\* event_type that is a JSON array or object: _EVENT_REGISTRY.get(event_type)
\* raises TypeError (unhashable type), which is not a ValueError.
parse_event(raw) ==
  IF raw.event_type = "[unhashable]" THEN "TypeError"
  ELSE IF raw.event_type \notin KnownEventTypes THEN "ValueError"
  ELSE IF ~raw.valid THEN "ValueError"
  ELSE "ok"

(***************************************************************************)
(* Inputs: the raw records a partition may hold, the stored preferences    *)
(* and the template table.                                                 *)
(***************************************************************************)
Users == {1}
Procs == {1, 2}

Records ==
  { [decodable |-> TRUE,  event_type |-> "user.registered", valid |-> TRUE,
     event_id |-> 1, user_id |-> 1],
    [decodable |-> TRUE,  event_type |-> "payment.failed", valid |-> TRUE,
     event_id |-> 2, user_id |-> 1],
    [decodable |-> TRUE,  event_type |-> "order.refunded", valid |-> TRUE,
     event_id |-> 3, user_id |-> 1],
    [decodable |-> TRUE,  event_type |-> "order.completed", valid |-> FALSE,
     event_id |-> 4, user_id |-> 1],
    [decodable |-> TRUE,  event_type |-> "order.completed", valid |-> TRUE,
     event_id |-> 5, user_id |-> 1],
    [decodable |-> TRUE,  event_type |-> "[unhashable]", valid |-> FALSE,
     event_id |-> 6, user_id |-> 1],
    [decodable |-> FALSE, event_type |-> "none", valid |-> FALSE,
     event_id |-> 0, user_id |-> 0] }

\* UserPreference rows; "absent" stands for no row of the user.
DefaultPreference ==
  [present |-> TRUE, channels |-> Channels,
   quiet_hours_start |-> NoTime, quiet_hours_end |-> NoTime, timezone |-> 0]

AbsentPreference ==
  [present |-> FALSE, channels |-> {},
   quiet_hours_start |-> NoTime, quiet_hours_end |-> NoTime, timezone |-> 0]

PreferenceChoices ==
  { AbsentPreference,
    [DefaultPreference EXCEPT !.channels = {"sms", "push"}],
    [DefaultPreference EXCEPT !.channels = {}] }

\* A template of (event_type, channel) is "active" (renders), "broken"
\* (active, rendering raises: a reference to an undefined variable) or
\* "none" (no row, or is_active = false).
SeedTemplates == [t \in KnownEventTypes |-> [c \in Channels |-> "active"]]

TemplateChoices ==
  { SeedTemplates,
    [SeedTemplates EXCEPT !["user.registered"] =
        [c \in Channels |-> IF c = "email" THEN "active"
                            ELSE IF c = "push" THEN "broken" ELSE "none"],
                          !["payment.failed"] =
        [c \in Channels |-> IF c = "sms" THEN "none" ELSE "active"],
                          !["order.completed"] =
        [c \in Channels |-> IF c = "sms" THEN "active" ELSE "none"]] }

(***************************************************************************)
(* State.                                                                  *)
(***************************************************************************)
VARIABLES
  \* the domain-event partition and the consumer group
  log,                   \* the partition: a sequence of raw records
  committed,             \* the group's committed offset (next offset to read)
  owner,                 \* the instance the partition is assigned to
  procs,                 \* the Event Processor instances that run
  running,               \* main's flag, cleared by the signal handler
  rebalances,            \* assignments so far
  faults,                \* injected faults so far
  \* one Event Processor instance (main loop + handle)
  pc, pos, msg, failure_counts,
  existing_channels, preferences, todo, created_notifications,
  txRows, txPref, toPublish,
  \* history: normal returns of handle per offset (capped), and the offsets
  \* committed past as poison pills
  okCount, poisoned,
  \* the store
  notifications, user_preferences, templates, nextId,
  \* the work queue and the status topic
  queue, statusTopic,
  \* one delivery worker (an execution of send_notification)
  wpc,                   \* where the worker's execution is
  wItem,                 \* the work item it executes
  wMem,                  \* the Notification object of its session
  wResult,               \* the provider's result
  redeliveries,          \* work items the queue delivered again so far
  \* the rate-limit store and the wall clock
  zset,                  \* ratelimit:<channel>: score -> number of members
  expireAt,              \* the key's expiry time (NoTime: none)
  now,
  \* history: provider invocations, writes of delivered_at, granted
  \* acquires and provider invocations by time
  sends, deliveredWrites, grantTimes, sendTimes,
  \* the last get_pending_retries call: its arguments and the rows it
  \* returned
  retry_call, pending_retries

epVars == <<log, committed, owner, procs, running, rebalances, faults, pc, pos, msg,
            failure_counts, existing_channels, preferences, todo,
            created_notifications, txRows, txPref, toPublish,
            okCount, poisoned>>
storeVars == <<notifications, user_preferences, templates, nextId>>
busVars == <<queue, statusTopic>>
workerVars == <<wpc, wItem, wMem, wResult, redeliveries>>
limiterVars == <<zset, expireAt, now>>
historyVars == <<sends, deliveredWrites, grantTimes, sendTimes>>
queryVars == <<retry_call, pending_retries>>
deVars == <<workerVars, limiterVars, historyVars, queryVars>>

vars == <<epVars, storeVars, busVars, deVars>>


(***************************************************************************)
(* Quiet hours (notification_service/quiet_hours.py).  Time is counted in  *)
(* seconds; a time of day is a number in 0 .. DaySeconds-1 and a timezone  *)
(* is its UTC offset in seconds.                                           *)
(***************************************************************************)
SecondsPerMinute == 2
MinutesPerDay == 4
DaySeconds == SecondsPerMinute * MinutesPerDay
MaxElapsed == 1      \* seconds between two readings of the clock

\* a variant without the wrap-around through midnight
_is_in_quiet_hours_NoWrap(current, start, end) ==
  start <= current /\ current < end

_is_in_quiet_hours(current, start, end) ==
  IF start <= end THEN start <= current /\ current < end
  ELSE current >= start \/ current < end

calculate_eta(quiet_hours_start, quiet_hours_end, timezone, now_utc) ==
  IF quiet_hours_start = NoTime \/ quiet_hours_end = NoTime THEN NoTime
  ELSE
    LET now_local == now_utc + timezone
        current_time == now_local % DaySeconds
        \* replace(hour, minute, second=0): the end's seconds are dropped
        end_of_day == (quiet_hours_end \div SecondsPerMinute) * SecondsPerMinute
        end_local == (now_local - current_time) + end_of_day
    IN IF ~_is_in_quiet_hours(current_time, quiet_hours_start, quiet_hours_end)
       THEN NoTime
       ELSE IF end_local <= now_local
            THEN (end_local + DaySeconds) - timezone
            ELSE end_local - timezone

(***************************************************************************)
(* The Event Processor: main loop (__main__.py) and EventHandler.handle.   *)
(***************************************************************************)
Raw(p) == log[msg[p]]

NoFailures == [o \in 1..LogLen |-> 0]

\* TemplateRepository.get_active_templates_for_event: active rows, by channel
get_active_templates_for_event(event_type) ==
  SelectSeq(ChannelOrder, LAMBDA c : templates[event_type][c] # "none")

\* NotificationRepository.get_channels_by_event_id over the committed rows
\* a variant whose query lacks the source_event_id filter
get_channels_by_event_id_Unfiltered(event_id) ==
  {n.channel : n \in notifications}

get_channels_by_event_id(event_id) ==
  {n.channel : n \in {r \in notifications : r.source_event_id = event_id}}

\* a variant in which only the first row of the transaction is made durable
RowsOf_FirstOnly(tx) == IF tx = <<>> THEN {} ELSE {tx[1]}

RowsOf(tx) == {tx[i] : i \in DOMAIN tx}

\* the session is closed without commit: the transaction is rolled back
Rollback(p) ==
  /\ txRows' = [txRows EXCEPT ![p] = <<>>]
  /\ txPref' = [txPref EXCEPT ![p] = 0]

\* handle is left (return or raise): its locals are gone
EndHandle(p) ==
  /\ existing_channels' = [existing_channels EXCEPT ![p] = {}]
  /\ preferences' = [preferences EXCEPT ![p] = AbsentPreference]
  /\ todo' = [todo EXCEPT ![p] = <<>>]
  /\ created_notifications' = [created_notifications EXCEPT ![p] = <<>>]
  /\ toPublish' = [toPublish EXCEPT ![p] = <<>>]

\* main loop, "except Exception": count the failure of this offset; at
\* MAX_HANDLER_RETRIES forget the count and commit past the record,
\* otherwise "continue" (no commit, no seek)
ExceptExceptionAt(p, offset) ==
  LET n == failure_counts[p][offset] + 1 IN
  IF n >= MAX_HANDLER_RETRIES
  THEN /\ failure_counts' = [failure_counts EXCEPT ![p][offset] = 0]
       /\ poisoned' = poisoned \cup {offset}
       /\ pc' = [pc EXCEPT ![p] = "commit"]
  ELSE /\ failure_counts' = [failure_counts EXCEPT ![p][offset] = n]
       /\ poisoned' = poisoned
       /\ pc' = [pc EXCEPT ![p] = "poll"]

ExceptException(p) == ExceptExceptionAt(p, msg[p])

\* handle raises a non-ValueError exception
HandleRaises(p) ==
  /\ Rollback(p)
  /\ EndHandle(p)
  /\ ExceptException(p)
  /\ UNCHANGED <<log, committed, owner, procs, running, rebalances, pos, msg, okCount>>
  /\ UNCHANGED <<storeVars, busVars, deVars>>

\* handle returns: the main loop goes on to consumer.commit(msg)
HandleReturns(p) ==
  /\ EndHandle(p)
  /\ okCount' = [okCount EXCEPT ![msg[p]] = IF @ < 2 THEN @ + 1 ELSE @]
  /\ pc' = [pc EXCEPT ![p] = "commit"]

\* consumer.poll returns the next record of the assigned partition
PollGuard(p) ==
  /\ p \in procs
  /\ pc[p] = "poll"
  /\ running[p]
  /\ owner = p
  /\ pos[p] <= Len(log)

Fetch(p) ==
  /\ msg' = [msg EXCEPT ![p] = pos[p]]
  /\ pos' = [pos EXCEPT ![p] = pos[p] + 1]

\* json.loads fails: "Malformed message, skipping", commit, continue
PollMalformed(p) ==
  /\ PollGuard(p)
  /\ ~log[pos[p]].decodable
  /\ Fetch(p)
  /\ pc' = [pc EXCEPT ![p] = "commit"]
  /\ UNCHANGED <<log, committed, owner, procs, running, rebalances, faults,
                 failure_counts, existing_channels, preferences, todo,
                 created_notifications, txRows, txPref, toPublish,
                 okCount, poisoned>>
  /\ UNCHANGED <<storeVars, busVars, deVars>>

\* handle raises ValueError (parse_event / get_priority): commit, continue
PollInvalid(p) ==
  /\ PollGuard(p)
  /\ log[pos[p]].decodable
  /\ \/ parse_event(log[pos[p]]) = "ValueError"
     \/ get_priority(log[pos[p]].event_type) = "ValueError"
  /\ Fetch(p)
  /\ pc' = [pc EXCEPT ![p] = "commit"]
  /\ UNCHANGED <<log, committed, owner, procs, running, rebalances, faults,
                 failure_counts, existing_channels, preferences, todo,
                 created_notifications, txRows, txPref, toPublish,
                 okCount, poisoned>>
  /\ UNCHANGED <<storeVars, busVars, deVars>>

\* parse_event raises an exception that is not a ValueError: the main loop
\* takes it in "except Exception"
PollUnparsed(p) ==
  /\ PollGuard(p)
  /\ log[pos[p]].decodable
  /\ parse_event(log[pos[p]]) = "TypeError"
  /\ Fetch(p)
  /\ ExceptExceptionAt(p, pos[p])
  /\ UNCHANGED <<log, committed, owner, procs, running, rebalances, faults,
                 existing_channels, preferences, todo,
                 created_notifications, txRows, txPref, toPublish, okCount>>
  /\ UNCHANGED <<storeVars, busVars, deVars>>

\* a valid event of a known type: handle goes on to open the session
PollEvent(p) ==
  /\ PollGuard(p)
  /\ log[pos[p]].decodable
  /\ parse_event(log[pos[p]]) = "ok"
  /\ get_priority(log[pos[p]].event_type) # "ValueError"
  /\ Fetch(p)
  /\ pc' = [pc EXCEPT ![p] = "existing"]
  /\ UNCHANGED <<log, committed, owner, procs, running, rebalances, faults,
                 failure_counts, existing_channels, preferences, todo,
                 created_notifications, txRows, txPref, toPublish,
                 okCount, poisoned>>
  /\ UNCHANGED <<storeVars, busVars, deVars>>

\* existing_channels = notification_repo.get_channels_by_event_id(event_id)
ReadExisting(p) ==
  /\ p \in procs
  /\ pc[p] = "existing"
  /\ existing_channels' =
       [existing_channels EXCEPT ![p] = get_channels_by_event_id(Raw(p).event_id)]
  /\ pc' = [pc EXCEPT ![p] = "prefs"]
  /\ UNCHANGED <<log, committed, owner, procs, running, rebalances, faults, pos, msg,
                 failure_counts, preferences, todo, created_notifications,
                 txRows, txPref, toPublish, okCount, poisoned>>
  /\ UNCHANGED <<storeVars, busVars, deVars>>

\* preferences = pref_repo.get_by_user_id(user_id); with a row, the loop
\* goes over template_repo.get_active_templates_for_event(event_type)
ReadPreferences(p) ==
  /\ p \in procs
  /\ pc[p] = "prefs"
  /\ LET stored == user_preferences[Raw(p).user_id] IN
     IF stored.present
     THEN /\ preferences' = [preferences EXCEPT ![p] = stored]
          /\ todo' = [todo EXCEPT ![p] =
                        get_active_templates_for_event(Raw(p).event_type)]
          /\ pc' = [pc EXCEPT ![p] = "loop"]
     ELSE /\ pc' = [pc EXCEPT ![p] = "create_default"]
          /\ UNCHANGED <<preferences, todo>>
  /\ UNCHANGED <<log, committed, owner, procs, running, rebalances, faults, pos, msg,
                 failure_counts, existing_channels, created_notifications,
                 txRows, txPref, toPublish, okCount, poisoned>>
  /\ UNCHANGED <<storeVars, busVars, deVars>>

\* pref_repo.create_default(user_id): INSERT and flush.  The insert waits
\* while another open transaction holds an uncommitted row of the same key.
CreateDefault(p) ==
  /\ p \in procs
  /\ pc[p] = "create_default"
  /\ ~user_preferences[Raw(p).user_id].present
  /\ \A q \in procs \ {p} : txPref[q] # Raw(p).user_id
  /\ txPref' = [txPref EXCEPT ![p] = Raw(p).user_id]
  /\ preferences' = [preferences EXCEPT ![p] = DefaultPreference]
  /\ todo' = [todo EXCEPT ![p] =
                get_active_templates_for_event(Raw(p).event_type)]
  /\ pc' = [pc EXCEPT ![p] = "loop"]
  /\ UNCHANGED <<log, committed, owner, procs, running, rebalances, faults, pos, msg,
                 failure_counts, existing_channels, created_notifications,
                 txRows, toPublish, okCount, poisoned>>
  /\ UNCHANGED <<storeVars, busVars, deVars>>

\* the row was committed by another transaction after get_by_user_id saw
\* none: the flush raises IntegrityError (primary key), handle raises
CreateDefaultConflict(p) ==
  /\ p \in procs
  /\ pc[p] = "create_default"
  /\ user_preferences[Raw(p).user_id].present
  /\ HandleRaises(p)
  /\ UNCHANGED faults

\* the channel of the template the loop is at
Channel(p) == Head(todo[p])

\* a variant in which a render error does not skip the channel
Skipped_RenderErrorKept(p) ==
  \/ Channel(p) \in existing_channels[p]
  \/ Channel(p) \notin preferences[p].channels

\* a variant without the preference filter
Skipped_PreferencesIgnored(p) ==
  \/ Channel(p) \in existing_channels[p]
  \/ templates[Raw(p).event_type][Channel(p)] = "broken"

\* "continue": the channel already has a row, is disabled by the user's
\* preferences, or its template does not render
Skipped(p) ==
  \/ Channel(p) \in existing_channels[p]
  \/ Channel(p) \notin preferences[p].channels
  \/ templates[Raw(p).event_type][Channel(p)] = "broken"

\* a variant of the table without the unique constraint
UniqueViolation_NoConstraint(event_id, channel) == FALSE

\* the unique constraint uq_notification_event_channel on committed rows
UniqueViolation(event_id, channel) ==
  \E n \in notifications : n.source_event_id = event_id /\ n.channel = channel

\* another open transaction holds an uncommitted row of the same key: the
\* INSERT waits for that transaction to end
UniqueWait(p, event_id, channel) ==
  \E q \in procs \ {p} : \E r \in RowsOf(txRows[q]) :
     r.source_event_id = event_id /\ r.channel = channel

NewNotification(p, id) ==
  [id |-> id,
   user_id |-> Raw(p).user_id,
   channel |-> Channel(p),
   priority |-> get_priority(Raw(p).event_type),
   status |-> "pending",
   source_event_id |-> Raw(p).event_id,
   source_event_type |-> Raw(p).event_type,
   attempts |-> 0,
   max_attempts |-> DefaultMaxAttempts,
   next_retry_at |-> NoTime,
   delivered_at |-> NoTime,
   failed_reason |-> NoReason]

\* celery send_task("delivery_worker.tasks.send_notification", ...)
WorkItem(notification_id, queue_label, eta, countdown) ==
  [notification_id |-> notification_id, queue |-> queue_label,
   eta |-> eta, countdown |-> countdown]

StatusRecord(n, status) ==
  [notification_id |-> n.id, status |-> status,
   event_type |-> n.source_event_type, channel |-> n.channel,
   user_id |-> n.user_id]

\* datetime.now(UTC) as read by calculate_eta: the wall clock, which has
\* advanced by up to MaxElapsed since it was last read; the clock is not
\* read when a quiet-hours bound is null
ClockReadings(p) ==
  IF preferences[p].quiet_hours_start = NoTime
     \/ preferences[p].quiet_hours_end = NoTime
  THEN {now}
  ELSE now..(now + MaxElapsed)

LoopSkip(p) ==
  /\ p \in procs
  /\ pc[p] = "loop"
  /\ todo[p] # <<>>
  /\ Skipped(p)
  /\ todo' = [todo EXCEPT ![p] = Tail(todo[p])]
  /\ UNCHANGED <<log, committed, owner, procs, running, rebalances, faults, pc, pos, msg,
                 failure_counts, existing_channels, preferences,
                 created_notifications, txRows, txPref, toPublish,
                 okCount, poisoned>>
  /\ UNCHANGED <<storeVars, busVars, deVars>>

\* render, calculate_eta, notification_repo.create, celery.send_task
LoopCreate(p) ==
  /\ p \in procs
  /\ pc[p] = "loop"
  /\ todo[p] # <<>>
  /\ ~Skipped(p)
  /\ ~UniqueViolation(Raw(p).event_id, Channel(p))
  /\ ~UniqueWait(p, Raw(p).event_id, Channel(p))
  /\ \E now_utc \in ClockReadings(p) :
       LET eta == calculate_eta(preferences[p].quiet_hours_start,
                                preferences[p].quiet_hours_end,
                                preferences[p].timezone, now_utc)
           n == NewNotification(p, nextId)
       IN /\ txRows' = [txRows EXCEPT ![p] = Append(txRows[p], n)]
          /\ created_notifications' =
               [created_notifications EXCEPT ![p] = Append(@, n)]
          /\ queue' = queue (+) SetToBag({WorkItem(n.id, n.priority, eta, 0)})
          /\ now' = now_utc
  /\ nextId' = nextId + 1
  /\ todo' = [todo EXCEPT ![p] = Tail(todo[p])]
  /\ UNCHANGED <<log, committed, owner, procs, running, rebalances, faults, pc, pos, msg,
                 failure_counts, existing_channels, preferences, txPref,
                 toPublish, okCount, poisoned>>
  /\ UNCHANGED <<notifications, user_preferences, templates, statusTopic,
                 workerVars, zset, expireAt, historyVars,
                 queryVars>>

\* notification_repo.create flushes into a committed row of the same
\* (source_event_id, channel): IntegrityError, handle raises
LoopCreateConflict(p) ==
  /\ p \in procs
  /\ pc[p] = "loop"
  /\ todo[p] # <<>>
  /\ ~Skipped(p)
  /\ UniqueViolation(Raw(p).event_id, Channel(p))
  /\ HandleRaises(p)
  /\ UNCHANGED faults

\* a store error in create, or the broker refusing send_task: handle raises
LoopFault(p) ==
  /\ p \in procs
  /\ pc[p] = "loop"
  /\ todo[p] # <<>>
  /\ ~Skipped(p)
  /\ faults < MaxFaults
  /\ faults' = faults + 1
  /\ HandleRaises(p)

\* session.commit(): the rows of this transaction become visible; with
\* nothing created handle returns, otherwise the statuses are published
DbCommit(p) ==
  /\ p \in procs
  /\ pc[p] = "loop"
  /\ todo[p] = <<>>
  /\ notifications' = notifications \cup RowsOf(txRows[p])
  /\ user_preferences' =
       IF txPref[p] = 0 THEN user_preferences
       ELSE [user_preferences EXCEPT ![txPref[p]] = DefaultPreference]
  /\ Rollback(p)
  /\ IF created_notifications[p] = <<>>
     THEN HandleReturns(p)
     ELSE /\ toPublish' = [toPublish EXCEPT ![p] = created_notifications[p]]
          /\ pc' = [pc EXCEPT ![p] = "publish"]
          /\ UNCHANGED <<existing_channels, preferences, todo,
                         created_notifications, okCount>>
  /\ UNCHANGED <<log, committed, owner, procs, running, rebalances, faults, pos, msg,
                 failure_counts, poisoned>>
  /\ UNCHANGED <<templates, nextId, busVars, deVars>>

\* session.commit() raises (connection lost, deadlock): rolled back
DbCommitFault(p) ==
  /\ p \in procs
  /\ pc[p] = "loop"
  /\ todo[p] = <<>>
  /\ faults < MaxFaults
  /\ faults' = faults + 1
  /\ HandleRaises(p)

\* status_producer.publish_status for the next created notification; after
\* the last one handle returns
Publish(p) ==
  /\ p \in procs
  /\ pc[p] = "publish"
  /\ toPublish[p] # <<>>
  /\ statusTopic' =
       Append(statusTopic,
              StatusRecord(Head(toPublish[p]), Head(toPublish[p]).status))
  /\ IF Tail(toPublish[p]) = <<>>
     THEN HandleReturns(p)
     ELSE /\ toPublish' = [toPublish EXCEPT ![p] = Tail(toPublish[p])]
          /\ UNCHANGED <<pc, existing_channels, preferences, todo,
                         created_notifications, okCount>>
  /\ UNCHANGED <<log, committed, owner, procs, running, rebalances, faults, pos, msg,
                 failure_counts, txRows, txPref, poisoned>>
  /\ UNCHANGED <<storeVars, queue, deVars>>

\* producer.produce raises (local queue full): handle raises after the
\* store commit
PublishFault(p) ==
  /\ p \in procs
  /\ pc[p] = "publish"
  /\ toPublish[p] # <<>>
  /\ faults < MaxFaults
  /\ faults' = faults + 1
  /\ HandleRaises(p)

\* consumer.commit(msg): the group's offset becomes msg.offset + 1.  A
\* commit by an instance that lost the partition is rejected and raises out
\* of the loop: the process ends.
Commit(p) ==
  /\ p \in procs
  /\ pc[p] = "commit"
  /\ IF owner = p
     THEN /\ committed' = msg[p] + 1
          /\ pc' = [pc EXCEPT ![p] = "poll"]
     ELSE /\ pc' = [pc EXCEPT ![p] = "stopped"]
          /\ UNCHANGED committed
  /\ UNCHANGED <<log, owner, procs, running, rebalances, faults, pos, msg,
                 failure_counts, existing_channels, preferences, todo,
                 created_notifications, txRows, txPref, toPublish,
                 okCount, poisoned>>
  /\ UNCHANGED <<storeVars, busVars, deVars>>

\* the group assigns the partition to instance p, which is in poll: it
\* fetches from the committed offset.  The previous owner may still be
\* handling a record.
Rebalance(p) ==
  /\ p \in procs
  /\ pc[p] = "poll"
  /\ rebalances < MaxRebalance
  /\ rebalances' = rebalances + 1
  /\ owner' = p
  /\ pos' = [pos EXCEPT ![p] = committed]
  /\ UNCHANGED <<log, committed, procs, running, faults, pc, msg,
                 failure_counts, existing_channels, preferences, todo,
                 created_notifications, txRows, txPref, toPublish,
                 okCount, poisoned>>
  /\ UNCHANGED <<storeVars, busVars, deVars>>

\* SIGTERM or SIGINT is delivered: _shutdown clears the flag, whatever the
\* loop is doing
Signal(p) ==
  /\ p \in procs
  /\ pc[p] # "stopped"
  /\ running[p]
  /\ running' = [running EXCEPT ![p] = FALSE]
  /\ UNCHANGED <<log, committed, owner, procs, rebalances, faults, pc, pos, msg,
                 failure_counts, existing_channels, preferences, todo,
                 created_notifications, txRows, txPref, toPublish,
                 okCount, poisoned>>
  /\ UNCHANGED <<storeVars, busVars, deVars>>

\* a variant in which the signal ends the loop wherever it stands
Exit_Abrupt(p) ==
  /\ p \in procs
  /\ pc[p] # "stopped"
  /\ ~running[p]
  /\ pc' = [pc EXCEPT ![p] = "stopped"]
  /\ UNCHANGED <<log, committed, owner, procs, running, rebalances, faults,
                 pos, msg, failure_counts, existing_channels, preferences,
                 todo, created_notifications, txRows, txPref, toPublish,
                 okCount, poisoned>>
  /\ UNCHANGED <<storeVars, busVars, deVars>>

\* "while running" is false at the loop head: the finally block closes the
\* producer and the consumer, main returns
Exit(p) ==
  /\ p \in procs
  /\ pc[p] = "poll"
  /\ ~running[p]
  /\ pc' = [pc EXCEPT ![p] = "stopped"]
  /\ UNCHANGED <<log, committed, owner, procs, running, rebalances, faults,
                 pos, msg, failure_counts, existing_channels, preferences,
                 todo, created_notifications, txRows, txPref, toPublish,
                 okCount, poisoned>>
  /\ UNCHANGED <<storeVars, busVars, deVars>>

\* a stopped process is started again: main() begins with empty counts
Restart(p) ==
  /\ p \in procs
  /\ pc[p] = "stopped"
  /\ pc' = [pc EXCEPT ![p] = "poll"]
  /\ failure_counts' = [failure_counts EXCEPT ![p] = NoFailures]
  /\ running' = [running EXCEPT ![p] = TRUE]
  /\ UNCHANGED <<log, committed, owner, procs, rebalances, faults, pos, msg,
                 existing_channels, preferences, todo,
                 created_notifications, txRows, txPref, toPublish,
                 okCount, poisoned>>
  /\ UNCHANGED <<storeVars, busVars, deVars>>

(***************************************************************************)
(* The Delivery Engine: delivery_worker/tasks.py, rate_limiter.py and      *)
(* NotificationRepository.update_status.                                   *)
(***************************************************************************)
Workers == {1, 2}

MaxRedeliver == 1    \* work items the queue delivers a second time
MaxTime == 2         \* the wall clock runs over 0 .. MaxTime

\* RateLimitConfig (RATE_LIMIT_* settings)
window_seconds == 2
email_per_minute == 1
sms_per_minute == 1
push_per_minute == 2

_RATE_LIMIT_RETRY_SECONDS == 10
retry_backoff_seconds == <<60, 300, 900>>

\* the details of a provider's DeliveryResult with success = False
Details == {"Timeout", "Rejected"}

limit_for_channel(channel) ==
  CASE channel = "email" -> email_per_minute
    [] channel = "sms" -> sms_per_minute
    [] channel = "push" -> push_per_minute

\* a variant that always takes the first delay of the schedule
_get_backoff_First(attempt, schedule) == schedule[1]

\* schedule[min(attempt - 1, len(schedule) - 1)]; a negative index counts
\* from the end of the list
_get_backoff(attempt, schedule) ==
  LET idx == IF attempt - 1 < Len(schedule) - 1 THEN attempt - 1
             ELSE Len(schedule) - 1
  IN IF idx >= 0 THEN schedule[idx + 1] ELSE schedule[Len(schedule) + idx + 1]

NoItem == WorkItem(0, "none", NoTime, 0)
NoRow ==
  [id |-> 0, user_id |-> 0, channel |-> "none", priority |-> "none",
   status |-> "none", source_event_id |-> 0, source_event_type |-> "none",
   attempts |-> 0, max_attempts |-> 0, next_retry_at |-> NoTime,
   delivered_at |-> NoTime, failed_reason |-> NoReason]
\* no get_pending_retries call yet
NoCall == [now |-> NoTime, limit |-> 0]
NoResult == [kind |-> "none", success |-> FALSE, details |-> NoReason]

Row(id) == CHOOSE n \in notifications : n.id = id
HasRow(id) == \E n \in notifications : n.id = id

\* a variant of the gate that lets permanently failed rows through
Terminal_DeliveredOnly(n) == n.status = "delivered"

\* "Idempotency: skip terminal states", on the loaded object
Terminal(n) ==
  \/ n.status = "delivered"
  \/ n.status = "failed" /\ n.attempts >= n.max_attempts

\* update_status on the session's object: the attributes it assigns
Assigned(mem, status, failed_reason, delivered_at, next_retry_at, increment_attempts) ==
  [mem EXCEPT
     !.status = status,
     !.failed_reason = IF failed_reason # NoReason THEN failed_reason ELSE @,
     !.delivered_at = IF delivered_at # NoTime THEN delivered_at ELSE @,
     !.next_retry_at = IF next_retry_at # NoTime THEN next_retry_at ELSE @,
     !.attempts = IF increment_attempts THEN @ + 1 ELSE @]

\* flush + commit: the UPDATE sets the columns whose attribute changed on the
\* session's object (a new timestamp always differs), to the object's value
Flushed(row, mem, status, failed_reason, delivered_at, next_retry_at, increment_attempts) ==
  LET new == Assigned(mem, status, failed_reason, delivered_at,
                      next_retry_at, increment_attempts)
  IN [row EXCEPT
        !.status = IF new.status # mem.status THEN new.status ELSE @,
        !.failed_reason =
           IF new.failed_reason # mem.failed_reason THEN new.failed_reason
           ELSE @,
        !.delivered_at = IF delivered_at # NoTime THEN delivered_at ELSE @,
        !.next_retry_at = IF next_retry_at # NoTime THEN next_retry_at ELSE @,
        !.attempts = IF new.attempts # mem.attempts THEN new.attempts ELSE @]

\* repo.update_status(...); session.commit() by worker w
UpdateStatus(w, status, failed_reason, delivered_at, next_retry_at, increment_attempts) ==
  /\ notifications' =
       {IF n.id = wMem[w].id
        THEN Flushed(n, wMem[w], status, failed_reason, delivered_at,
                     next_retry_at, increment_attempts)
        ELSE n : n \in notifications}
  /\ wMem' = [wMem EXCEPT ![w] =
                Assigned(wMem[w], status, failed_reason, delivered_at,
                         next_retry_at, increment_attempts)]

\* the work queue hands an item to an idle worker (prefetch 1)
Dequeue(w, item) ==
  /\ wpc[w] = "idle"
  /\ BagIn(item, queue)
  /\ queue' = queue (-) SetToBag({item})

\* a variant that puts the work item of a missing row back with a delay
LoadMissing_Requeues(w) ==
  /\ \E item \in BagToSet(queue) :
       /\ wpc[w] = "idle"
       /\ ~HasRow(item.notification_id)
       /\ queue' = (queue (-) SetToBag({item}))
                     (+) SetToBag({WorkItem(item.notification_id, "normal",
                                            NoTime, _RATE_LIMIT_RETRY_SECONDS)})
  /\ UNCHANGED <<epVars, storeVars, statusTopic, workerVars, limiterVars,
                 historyVars,
                 queryVars>>

\* repo.get_by_id returns None: "Notification not found, skipping"
LoadMissing(w) ==
  /\ \E item \in BagToSet(queue) :
       /\ Dequeue(w, item)
       /\ ~HasRow(item.notification_id)
  /\ UNCHANGED <<epVars, storeVars, statusTopic, workerVars, limiterVars,
                 historyVars,
                 queryVars>>

\* the loaded notification is delivered or permanently failed: skip
LoadTerminal(w) ==
  /\ \E item \in BagToSet(queue) :
       /\ Dequeue(w, item)
       /\ HasRow(item.notification_id)
       /\ Terminal(Row(item.notification_id))
  /\ UNCHANGED <<epVars, storeVars, statusTopic, workerVars, limiterVars,
                 historyVars,
                 queryVars>>

\* the loaded notification passes the gate
LoadEligible(w) ==
  /\ \E item \in BagToSet(queue) :
       /\ Dequeue(w, item)
       /\ HasRow(item.notification_id)
       /\ ~Terminal(Row(item.notification_id))
       /\ wItem' = [wItem EXCEPT ![w] = item]
       /\ wMem' = [wMem EXCEPT ![w] = Row(item.notification_id)]
  /\ wpc' = [wpc EXCEPT ![w] = "mark_sending"]
  /\ UNCHANGED <<epVars, storeVars, statusTopic, wResult, redeliveries,
                 limiterVars, historyVars,
                 queryVars>>

\* "Transition to SENDING": update_status(nid, SENDING); commit
MarkSending(w) ==
  /\ wpc[w] = "mark_sending"
  /\ UpdateStatus(w, "sending", NoReason, NoTime, NoTime, FALSE)
  /\ wpc' = [wpc EXCEPT ![w] = "acquire"]
  /\ UNCHANGED <<epVars, user_preferences, templates, nextId, busVars,
                 wItem, wResult, redeliveries, limiterVars, historyVars,
                 queryVars>>

\* the members of ratelimit:<channel> that a command sees: none once the
\* key's expiry time has passed
Live(channel) ==
  IF expireAt[channel] # NoTime /\ now >= expireAt[channel] THEN EmptyBag
  ELSE zset[channel]

\* a variant of the script whose range removal leaves the entry scored
\* exactly window_start in place
Trimmed_Exclusive(members, window_start) ==
  [s \in {x \in DOMAIN members : x >= window_start} |-> members[s]]

\* ZREMRANGEBYSCORE key -inf window_start
Trimmed(members, window_start) ==
  [s \in {x \in DOMAIN members : x > window_start} |-> members[s]]

\* _RATE_LIMIT_LUA as one atomic step of the store: the sorted set after
\* the script, and its reply
\* a variant of the script that compares with <= (admits limit + 1)
LuaGrants_OffByOne(channel, window_start, limit) ==
  BagCardinality(Trimmed(Live(channel), window_start)) <= limit

LuaGrants(channel, window_start, limit) ==
  BagCardinality(Trimmed(Live(channel), window_start)) < limit

\* a variant of the script that adds the member before it compares
LuaSet_AddsFirst(channel, window_start, limit, score) ==
  Trimmed(Live(channel), window_start) (+) SetToBag({score})

LuaSet(channel, window_start, limit, score) ==
  IF LuaGrants(channel, window_start, limit)
  THEN Trimmed(Live(channel), window_start) (+) SetToBag({score})
  ELSE Trimmed(Live(channel), window_start)

\* RateLimiter.acquire(channel) at time now
AcquireCall(channel) ==
  /\ zset' = [zset EXCEPT ![channel] =
                LuaSet(channel, now - window_seconds,
                       limit_for_channel(channel), now)]
  /\ expireAt' = [expireAt EXCEPT ![channel] =
                    IF LuaGrants(channel, now - window_seconds,
                                 limit_for_channel(channel))
                    THEN now + window_seconds + 1
                    ELSE @]

\* acquire returns True: go on to the provider
AcquireGranted(w) ==
  /\ wpc[w] = "acquire"
  /\ LuaGrants(wMem[w].channel, now - window_seconds,
               limit_for_channel(wMem[w].channel))
  /\ AcquireCall(wMem[w].channel)
  /\ grantTimes' = grantTimes (+) SetToBag({<<wMem[w].channel, now>>})
  /\ wpc' = [wpc EXCEPT ![w] = "send"]
  /\ UNCHANGED <<epVars, storeVars, busVars, wItem, wMem, wResult,
                 redeliveries, now, sends, deliveredWrites, sendTimes,
                 queryVars>>

\* acquire returns False: "Rate limited, rescheduling"
AcquireDenied(w) ==
  /\ wpc[w] = "acquire"
  /\ ~LuaGrants(wMem[w].channel, now - window_seconds,
                limit_for_channel(wMem[w].channel))
  /\ AcquireCall(wMem[w].channel)
  /\ wpc' = [wpc EXCEPT ![w] = "revert"]
  /\ UNCHANGED <<epVars, storeVars, busVars, wItem, wMem, wResult,
                 redeliveries, now, historyVars,
                 queryVars>>

\* the store is unreachable: the script call raises, acquire raises, and
\* the task ends with the exception (the session is closed)
AcquireRaises(w) ==
  /\ wpc[w] = "acquire"
  /\ faults < MaxFaults
  /\ faults' = faults + 1
  /\ wpc' = [wpc EXCEPT ![w] = "idle"]
  /\ wItem' = [wItem EXCEPT ![w] = NoItem]
  /\ wMem' = [wMem EXCEPT ![w] = NoRow]
  /\ UNCHANGED <<log, committed, owner, procs, running, rebalances, pc, pos, msg,
                 failure_counts, existing_channels, preferences, todo,
                 created_notifications, txRows, txPref, toPublish,
                 okCount, poisoned>>
  /\ UNCHANGED <<storeVars, busVars, wResult, redeliveries, limiterVars,
                 historyVars,
                 queryVars>>

\* update_status(nid, PENDING); commit
RevertPending(w) ==
  /\ wpc[w] = "revert"
  /\ UpdateStatus(w, "pending", NoReason, NoTime, NoTime, FALSE)
  /\ wpc' = [wpc EXCEPT ![w] = "requeue_rate_limited"]
  /\ UNCHANGED <<epVars, user_preferences, templates, nextId, busVars,
                 wItem, wResult, redeliveries, limiterVars, historyVars,
                 queryVars>>

\* the task returns: the work item is acknowledged, the session is closed
TaskReturns(w) ==
  /\ wpc' = [wpc EXCEPT ![w] = "idle"]
  /\ wItem' = [wItem EXCEPT ![w] = NoItem]
  /\ wMem' = [wMem EXCEPT ![w] = NoRow]
  /\ wResult' = [wResult EXCEPT ![w] = NoResult]

\* a variant that drops the countdown
_requeue_NoDelay(notification_id, countdown) ==
  queue' = queue (+) SetToBag({WorkItem(notification_id, "normal", NoTime, 0)})

\* _requeue: app.send_task without a queue goes to task_default_queue
_requeue(notification_id, countdown) ==
  queue' = queue (+) SetToBag({WorkItem(notification_id, "normal", NoTime,
                                        countdown)})

\* _requeue(notification_id, _RATE_LIMIT_RETRY_SECONDS); return
RequeueRateLimited(w) ==
  /\ wpc[w] = "requeue_rate_limited"
  /\ _requeue(wMem[w].id, _RATE_LIMIT_RETRY_SECONDS)
  /\ TaskReturns(w)
  /\ UNCHANGED <<epVars, storeVars, statusTopic, redeliveries, limiterVars,
                 historyVars,
                 queryVars>>

Outcome(result) ==
  IF result.kind = "exception" THEN "exception"
  ELSE IF result.success THEN "success" ELSE "failure"

\* provider_registry.get(channel).send(notification)
ProviderCall(w, result) ==
  /\ wpc[w] = "send"
  /\ wResult' = [wResult EXCEPT ![w] = result]
  /\ sends' = sends (+) SetToBag({<<wMem[w].id, Outcome(result)>>})
  /\ sendTimes' = sendTimes (+) SetToBag({<<wMem[w].channel, now>>})
  /\ wpc' = [wpc EXCEPT ![w] = "result"]
  /\ UNCHANGED <<epVars, storeVars, busVars, wItem, wMem, redeliveries,
                 limiterVars, deliveredWrites, grantTimes,
                 queryVars>>

SendSucceeds(w) ==
  ProviderCall(w, [kind |-> "result", success |-> TRUE, details |-> "sent"])

SendFails(w) ==
  \E d \in Details :
    ProviderCall(w, [kind |-> "result", success |-> FALSE, details |-> d])

\* the provider raises: "Provider error", result = None
SendRaises(w) ==
  ProviderCall(w, [kind |-> "exception", success |-> FALSE,
                   details |-> NoReason])

Succeeded(w) == wResult[w].kind = "result" /\ wResult[w].success

\* update_status(nid, DELIVERED, delivered_at=now); commit
CommitDelivered(w) ==
  /\ wpc[w] = "result"
  /\ Succeeded(w)
  /\ UpdateStatus(w, "delivered", NoReason, now, NoTime, FALSE)
  /\ deliveredWrites' = deliveredWrites (+) SetToBag({wMem[w].id})
  /\ wpc' = [wpc EXCEPT ![w] = "publish_delivered"]
  /\ UNCHANGED <<epVars, user_preferences, templates, nextId, busVars,
                 wItem, wResult, redeliveries, limiterVars, sends,
                 grantTimes, sendTimes,
                 queryVars>>

\* status_publisher.publish_status(status=DELIVERED); return
PublishDelivered(w) ==
  /\ wpc[w] = "publish_delivered"
  /\ statusTopic' = Append(statusTopic, StatusRecord(wMem[w], "delivered"))
  /\ TaskReturns(w)
  /\ UNCHANGED <<epVars, storeVars, queue, redeliveries, limiterVars,
                 historyVars,
                 queryVars>>

\* a variant that never takes the details of the result
error_reason_Generic(w) == "Provider exception"

\* a variant that reads the details of a result that does not exist
error_reason_NoDefault(w) == wResult[w].details

error_reason(w) ==
  IF wResult[w].kind = "result" THEN wResult[w].details
  ELSE "Provider exception"

\* new_attempts < max_attempts: update_status(nid, PENDING,
\* next_retry_at=now, increment_attempts=True); commit
CommitRetry(w) ==
  /\ wpc[w] = "result"
  /\ ~Succeeded(w)
  /\ wMem[w].attempts + 1 < wMem[w].max_attempts
  /\ UpdateStatus(w, "pending", NoReason, NoTime, now, TRUE)
  /\ wpc' = [wpc EXCEPT ![w] = "requeue_retry"]
  /\ UNCHANGED <<epVars, user_preferences, templates, nextId, busVars,
                 wItem, wResult, redeliveries, limiterVars, historyVars,
                 queryVars>>

\* _requeue(notification_id, backoff); return.  new_attempts is the
\* attempts value after the increment.
RequeueRetry(w) ==
  /\ wpc[w] = "requeue_retry"
  /\ _requeue(wMem[w].id,
              _get_backoff(wMem[w].attempts, retry_backoff_seconds))
  /\ TaskReturns(w)
  /\ UNCHANGED <<epVars, storeVars, statusTopic, redeliveries, limiterVars,
                 historyVars,
                 queryVars>>

\* otherwise: update_status(nid, FAILED, failed_reason=error_reason,
\* increment_attempts=True); commit
CommitFailed(w) ==
  /\ wpc[w] = "result"
  /\ ~Succeeded(w)
  /\ ~(wMem[w].attempts + 1 < wMem[w].max_attempts)
  /\ UpdateStatus(w, "failed", error_reason(w), NoTime, NoTime, TRUE)
  /\ wpc' = [wpc EXCEPT ![w] = "publish_failed"]
  /\ UNCHANGED <<epVars, user_preferences, templates, nextId, busVars,
                 wItem, wResult, redeliveries, limiterVars, historyVars,
                 queryVars>>

\* status_publisher.publish_status(status=FAILED); return
PublishFailed(w) ==
  /\ wpc[w] = "publish_failed"
  /\ statusTopic' = Append(statusTopic, StatusRecord(wMem[w], "failed"))
  /\ TaskReturns(w)
  /\ UNCHANGED <<epVars, storeVars, queue, redeliveries, limiterVars,
                 historyVars,
                 queryVars>>

\* task_acks_late: an item is acknowledged when its task ends, so the queue
\* may deliver it again while a worker still executes it
Redeliver(w) ==
  /\ wpc[w] # "idle"
  /\ redeliveries < MaxRedeliver
  /\ redeliveries' = redeliveries + 1
  /\ queue' = queue (+) SetToBag({wItem[w]})
  /\ UNCHANGED <<epVars, storeVars, statusTopic, wpc, wItem, wMem, wResult,
                 limiterVars, historyVars,
                 queryVars>>

\* time passes
Tick ==
  /\ now < MaxTime
  /\ now' = now + 1
  /\ UNCHANGED <<epVars, storeVars, busVars, workerVars, zset, expireAt,
                 historyVars,
                 queryVars>>

DeliveryWorker(w) ==
  \/ LoadMissing(w) \/ LoadTerminal(w) \/ LoadEligible(w)
  \/ MarkSending(w)
  \/ AcquireGranted(w) \/ AcquireDenied(w) \/ AcquireRaises(w)
  \/ RevertPending(w) \/ RequeueRateLimited(w)
  \/ SendSucceeds(w) \/ SendFails(w) \/ SendRaises(w)
  \/ CommitDelivered(w) \/ PublishDelivered(w)
  \/ CommitRetry(w) \/ RequeueRetry(w)
  \/ CommitFailed(w) \/ PublishFailed(w)
  \/ Redeliver(w)

(***************************************************************************)
(* Initial states and specifications.                                      *)
(***************************************************************************)
SequentialProcessor(p) ==
  \/ PollMalformed(p) \/ PollInvalid(p) \/ PollEvent(p)
  \/ PollUnparsed(p)
  \/ ReadExisting(p) \/ ReadPreferences(p)
  \/ CreateDefault(p)
  \/ LoopSkip(p) \/ LoopCreate(p) \/ LoopFault(p)
  \/ DbCommit(p) \/ DbCommitFault(p)
  \/ Publish(p) \/ PublishFault(p)
  \/ Commit(p) \/ Rebalance(p)

EventProcessor(p) ==
  \/ SequentialProcessor(p)
  \/ CreateDefaultConflict(p) \/ LoopCreateConflict(p)
  \/ Restart(p)

\* every Event Processor instance idle in poll, nothing handled yet
InitProcessors ==
  /\ committed = 1
  /\ owner = 1
  /\ rebalances = 0
  /\ faults = 0
  /\ running = [p \in Procs |-> TRUE]
  /\ pc = [p \in Procs |-> "poll"]
  /\ pos = [p \in Procs |-> 1]
  /\ msg = [p \in Procs |-> 1]
  /\ failure_counts = [p \in Procs |-> NoFailures]
  /\ existing_channels = [p \in Procs |-> {}]
  /\ preferences = [p \in Procs |-> AbsentPreference]
  /\ todo = [p \in Procs |-> <<>>]
  /\ created_notifications = [p \in Procs |-> <<>>]
  /\ txRows = [p \in Procs |-> <<>>]
  /\ txPref = [p \in Procs |-> 0]
  /\ toPublish = [p \in Procs |-> <<>>]
  /\ okCount = [o \in 1..LogLen |-> 0]
  /\ poisoned = {}

\* every delivery worker idle, empty rate-limit store, clock at 0
InitWorkers ==
  /\ wpc = [w \in Workers |-> "idle"]
  /\ wItem = [w \in Workers |-> NoItem]
  /\ wMem = [w \in Workers |-> NoRow]
  /\ wResult = [w \in Workers |-> NoResult]
  /\ redeliveries = 0
  /\ zset = [c \in Channels |-> EmptyBag]
  /\ expireAt = [c \in Channels |-> NoTime]
  /\ now = 0
  /\ sends = EmptyBag
  /\ deliveredWrites = EmptyBag
  /\ grantTimes = EmptyBag
  /\ sendTimes = EmptyBag
  /\ retry_call = NoCall
  /\ pending_retries = <<>>

\* the Event Processor over an empty store
InitEP ==
  /\ InitProcessors
  /\ InitWorkers
  /\ log \in [1..LogLen -> Records]
  /\ notifications = {}
  /\ user_preferences \in [Users -> PreferenceChoices]
  /\ templates \in TemplateChoices
  /\ nextId = 1
  /\ queue = EmptyBag
  /\ statusTopic = <<>>

\* one instance: each partition is processed by one instance at a time
Init == InitEP /\ procs = {1}

Next == SequentialProcessor(1) \/ Signal(1) \/ Exit(1)

Spec == Init /\ [][Next]_vars

\* two instances: the partition is reassigned while its previous owner is
\* still handling a record
PartialTemplates == CHOOSE t \in TemplateChoices : t # SeedTemplates

InitC == InitEP /\ procs = {1, 2} /\ templates = PartialTemplates

NextC == \E p \in Procs : EventProcessor(p)

SpecC == InitC /\ [][NextC]_vars

\* one instance handling two valid events of a user whose preference row
\* has quiet hours: every pair of bounds (null included), a timezone east
\* or west of UTC, and the handling starting at any time of the day
TimesOfDay == 0..(DaySeconds - 1)

TimezoneOffsets == {0, SecondsPerMinute, 0 - SecondsPerMinute}

QuietPreferences ==
  { [DefaultPreference EXCEPT !.quiet_hours_start = s,
                              !.quiet_hours_end = e,
                              !.timezone = tz] :
      s \in TimesOfDay \cup {NoTime}, e \in TimesOfDay \cup {NoTime},
      tz \in TimezoneOffsets }

InitQ ==
  /\ InitProcessors
  /\ wpc = [w \in Workers |-> "idle"]
  /\ wItem = [w \in Workers |-> NoItem]
  /\ wMem = [w \in Workers |-> NoRow]
  /\ wResult = [w \in Workers |-> NoResult]
  /\ redeliveries = 0
  /\ zset = [c \in Channels |-> EmptyBag]
  /\ expireAt = [c \in Channels |-> NoTime]
  /\ now \in TimesOfDay
  /\ sends = EmptyBag
  /\ deliveredWrites = EmptyBag
  /\ grantTimes = EmptyBag
  /\ sendTimes = EmptyBag
  /\ retry_call = NoCall
  /\ pending_retries = <<>>
  /\ procs = {1}
  /\ log = [o \in 1..LogLen |->
              CHOOSE r \in Records : r.event_type = "payment.failed"]
  /\ notifications = {}
  /\ user_preferences \in [Users -> QuietPreferences]
  /\ templates = PartialTemplates
  /\ nextId = 1
  /\ queue = EmptyBag
  /\ statusTopic = <<>>

NextQ ==
  \/ PollEvent(1) \/ ReadExisting(1) \/ ReadPreferences(1)
  \/ LoopSkip(1) \/ LoopCreate(1)
  \/ DbCommit(1) \/ Publish(1) \/ Commit(1)

SpecQ == InitQ /\ [][NextQ]_vars

\* the Delivery Engine over the rows and work items the Event Processor
\* left: one committed notification with its work item, and the work item
\* of a notification whose transaction was rolled back
CreatedRow(id, channel) ==
  [id |-> id, user_id |-> 1, channel |-> channel, priority |-> "critical",
   status |-> "pending", source_event_id |-> 2,
   source_event_type |-> "payment.failed", attempts |-> 0,
   max_attempts |-> DefaultMaxAttempts, next_retry_at |-> NoTime,
   delivered_at |-> NoTime, failed_reason |-> NoReason]

InitDE ==
  /\ InitProcessors
  /\ InitWorkers
  /\ procs = {}
  /\ log = [o \in 1..LogLen |->
              CHOOSE r \in Records : r.event_type = "payment.failed"]
  /\ user_preferences = [u \in Users |-> DefaultPreference]
  /\ templates = SeedTemplates
  /\ \E c \in {"email", "push"} :
       /\ notifications = {CreatedRow(1, c)}
       /\ queue = SetToBag({WorkItem(1, "critical", NoTime, 0),
                            WorkItem(2, "critical", NoTime, 0)})
  /\ nextId = 3
  /\ statusTopic = <<>>

NextDE == Tick \/ \E w \in Workers : DeliveryWorker(w)

SpecDE == InitDE /\ [][NextDE]_vars

\* the whole pipeline: one Event Processor instance over a user.registered
\* event of a user who enabled push only, and one delivery worker on the
\* work queue; no store or broker fault and no redelivery (so no work item
\* of a terminal row); the loop, the worker and the clock are each
\* scheduled fairly
ProcessorL ==
  \/ PollEvent(1) \/ ReadExisting(1) \/ ReadPreferences(1)
  \/ LoopSkip(1) \/ LoopCreate(1)
  \/ DbCommit(1) \/ Publish(1) \/ Commit(1)

WorkerL ==
  \/ LoadMissing(1) \/ LoadEligible(1)
  \/ MarkSending(1)
  \/ AcquireGranted(1) \/ AcquireDenied(1)
  \/ RevertPending(1) \/ RequeueRateLimited(1)
  \/ SendSucceeds(1) \/ SendFails(1) \/ SendRaises(1)
  \/ CommitDelivered(1) \/ PublishDelivered(1)
  \/ CommitRetry(1) \/ RequeueRetry(1)
  \/ CommitFailed(1) \/ PublishFailed(1)

InitL ==
  /\ InitProcessors
  /\ InitWorkers
  /\ procs = {1}
  /\ log = [o \in 1..LogLen |->
              CHOOSE r \in Records : r.event_type = "user.registered"]
  /\ notifications = {}
  /\ user_preferences =
       [u \in Users |-> [DefaultPreference EXCEPT !.channels = {"push"}]]
  /\ templates = SeedTemplates
  /\ nextId = 1
  /\ queue = EmptyBag
  /\ statusTopic = <<>>

NextL == ProcessorL \/ WorkerL \/ Tick

SpecL ==
  /\ InitL
  /\ [][NextL]_vars
  /\ WF_vars(ProcessorL)
  /\ WF_vars(WorkerL)
  /\ WF_vars(Tick)

(***************************************************************************)
(* NotificationRepository.get_pending_retries over a table of rows in any  *)
(* status.                                                                 *)
(***************************************************************************)
MaxRows == 3         \* rows of the notifications table
MaxLimit == 2        \* the limit argument runs over 1 .. MaxLimit

\* a variant that compares a NULL next_retry_at like a timestamp
SqlLessEq_NullAsValue(a, b) == a <= b

\* column <= value in a WHERE clause: not true when the column is NULL
SqlLessEq(a, b) == a # NoTime /\ b # NoTime /\ a <= b

\* .where(status.in_([PENDING, FAILED]), next_retry_at <= now,
\*        attempts < max_attempts)
RetryCandidates(at) ==
  {n \in notifications :
     /\ n.status \in {"pending", "failed"}
     /\ SqlLessEq(n.next_retry_at, at)
     /\ n.attempts < n.max_attempts}

\* .order_by(next_retry_at.asc()): the orders the store may return the rows
\* in (rows with equal next_retry_at come in any order)
OrderedByNextRetry(rows) ==
  {s \in [1..Cardinality(rows) -> rows] :
     /\ \A i, j \in DOMAIN s : i # j => s[i] # s[j]
     /\ \A i, j \in DOMAIN s : i < j => s[i].next_retry_at <= s[j].next_retry_at}

\* .limit(limit)
Limited(s, limit) ==
  IF Len(s) <= limit THEN s ELSE SubSeq(s, 1, limit)

\* the lists get_pending_retries(now, limit) may return
get_pending_retries(at, limit) ==
  {Limited(s, limit) : s \in OrderedByNextRetry(RetryCandidates(at))}

\* a row of the table in some status, with some attempts and retry time
RetryRow(id, status, attempts, next_retry_at) ==
  [CreatedRow(id, "email") EXCEPT !.status = status,
                                  !.attempts = attempts,
                                  !.next_retry_at = next_retry_at]

RetryRowChoices(id) ==
  {RetryRow(id, status, attempts, next_retry_at) :
     status \in {"pending", "sending", "delivered", "failed"},
     attempts \in {0, DefaultMaxAttempts},
     next_retry_at \in {NoTime, 1, 2}}

\* a session calls get_pending_retries and keeps the list it returns
GetPendingRetries ==
  /\ \E limit \in 1..MaxLimit :
       /\ retry_call' = [now |-> now, limit |-> limit]
       /\ pending_retries' \in get_pending_retries(now, limit)
  /\ UNCHANGED <<epVars, storeVars, busVars, workerVars, limiterVars,
                 historyVars>>

InitR ==
  /\ InitProcessors
  /\ InitWorkers
  /\ procs = {}
  /\ log = [o \in 1..LogLen |->
              CHOOSE r \in Records : r.event_type = "payment.failed"]
  /\ user_preferences = [u \in Users |-> DefaultPreference]
  /\ templates = SeedTemplates
  /\ \E table \in [1..MaxRows -> UNION {RetryRowChoices(id) : id \in 1..MaxRows}] :
       /\ \A id \in 1..MaxRows : table[id].id = id
       /\ notifications = {table[id] : id \in 1..MaxRows}
  /\ nextId = MaxRows + 1
  /\ queue = EmptyBag
  /\ statusTopic = <<>>

NextR == Tick \/ GetPendingRetries

SpecR == InitR /\ [][NextR]_vars

(***************************************************************************)
(* Properties.                                                             *)
(***************************************************************************)
Offsets == 1..LogLen

\* the valid records of known type
ValidRecord(raw) == raw.decodable /\ parse_event(raw) = "ok"

\* normal returns of handle for records carrying event_id
RECURSIVE ReturnsUpTo(_, _)
ReturnsUpTo(o, event_id) ==
  IF o = 0 THEN 0
  ELSE ReturnsUpTo(o - 1, event_id)
       + (IF ValidRecord(log[o]) /\ log[o].event_id = event_id
          THEN okCount[o] ELSE 0)

HandledOk(event_id) == ReturnsUpTo(LogLen, event_id)

\* the enabled set the handler works with: the stored one, or the default
\* (every channel) it stores when the user has no row
EnabledChannels(user_id) ==
  IF user_preferences[user_id].present
  THEN user_preferences[user_id].channels
  ELSE Channels

TemplatedChannels(event_type) ==
  {c \in Channels : templates[event_type][c] # "none"}

RenderedChannels(event_type) ==
  {c \in Channels : templates[event_type][c] = "active"}

RowsOfEvent(event_id) == {n \in notifications : n.source_event_id = event_id}

\* C1 as stated: after K >= 1 handlings of an event, its rows number
\* |enabled channels /\ channels with an active template|, and no handling
\* after the first creates a row or enqueues a work item
C1_AsStated ==
  /\ \A o \in Offsets :
       okCount[o] >= 1 =>
         Cardinality(RowsOfEvent(log[o].event_id)) =
           Cardinality(EnabledChannels(log[o].user_id)
                       \cap TemplatedChannels(log[o].event_type))
  /\ \A p \in procs :
       created_notifications[p] # <<>> => HandledOk(Raw(p).event_id) = 0

\* C1, amended: after K >= 1 handlings of an event that returned, its rows
\* are exactly one per channel that is enabled for the user and has an
\* active template that renders; a handling that creates a row (and
\* enqueues its work item) is never one that follows a returned handling of
\* the same event
C1_Idempotency ==
  /\ \A o \in Offsets :
       okCount[o] >= 1 =>
         /\ {n.channel : n \in RowsOfEvent(log[o].event_id)} =
              EnabledChannels(log[o].user_id)
              \cap RenderedChannels(log[o].event_type)
         /\ Cardinality(RowsOfEvent(log[o].event_id)) =
              Cardinality(EnabledChannels(log[o].user_id)
                          \cap RenderedChannels(log[o].event_type))
  /\ \A p \in procs :
       created_notifications[p] # <<>> => HandledOk(Raw(p).event_id) = 0

\* an event handled twice to its return, with rows
C1_Witness ==
  \E o \in Offsets :
    /\ HandledOk(log[o].event_id) >= 2
    /\ ValidRecord(log[o])
    /\ Cardinality(RowsOfEvent(log[o].event_id)) >= 2

\* every notification row the Event Processor holds: committed, or part of
\* an open transaction or of a handling's lists
RowsInHand(p) ==
  RowsOf(txRows[p]) \cup RowsOf(created_notifications[p])
  \cup RowsOf(toPublish[p])

AllRows == notifications \cup UNION {RowsInHand(p) : p \in Procs}

\* a step that changes the work queue adds exactly one work item, for a row
\* created by the same step whose channel is enabled for its user
C6_EnqueueStep ==
  queue' # queue =>
    \E p \in procs : \E n \in RowsOf(txRows'[p]) \ RowsOf(txRows[p]) :
      /\ n.channel \in EnabledChannels(n.user_id)
      /\ \E item \in BagToSet(queue') :
           /\ item.notification_id = n.id
           /\ queue' = queue (+) SetToBag({item})

\* C6: for a user whose stored enabled set excludes channel C, no
\* notification row exists (committed or in a transaction), no work item is
\* enqueued and no status is published for (user, C); with an empty enabled
\* set no row exists for the user at all
C6_PreferencesRespected ==
  /\ [](/\ \A n \in AllRows : n.channel \in EnabledChannels(n.user_id)
        /\ \A i \in DOMAIN statusTopic :
             statusTopic[i].channel \in EnabledChannels(statusTopic[i].user_id)
        /\ \A u \in Users :
             EnabledChannels(u) = {} => ~ \E n \in AllRows : n.user_id = u)
  /\ [][C6_EnqueueStep]_vars

\* an event with an active email template was handled to its return for a
\* user whose stored set excludes email, and rows of other channels exist
C6_Witness ==
  \E o \in Offsets :
    /\ okCount[o] >= 1
    /\ ValidRecord(log[o])
    /\ user_preferences[log[o].user_id].present
    /\ "email" \notin user_preferences[log[o].user_id].channels
    /\ templates[log[o].event_type]["email"] = "active"
    /\ RowsOfEvent(log[o].event_id) # {}
    /\ Len(statusTopic) >= 1
    /\ queue # EmptyBag

\* C7: every notification row has the priority the static map gives its
\* source_event_type, and no step changes the priority of a row
C7_PriorityFromMap ==
  /\ [](\A n \in AllRows : n.priority = _PRIORITY_MAP[n.source_event_type])
  /\ [][\A n \in notifications : \A m \in notifications' :
          m.id = n.id => m.priority = n.priority]_vars

\* rows of two event types with different, non-default priorities are stored
C7_Witness ==
  /\ \E n \in notifications :
       n.source_event_type = "order.completed" /\ n.priority = "high"
  /\ \E n \in notifications :
       n.source_event_type = "payment.failed" /\ n.priority = "critical"

\* C10: the committed offset is never past a valid event of known type
\* unless a handling of it returned or it reached the poison-pill threshold
\* (MAX_HANDLER_RETRIES failed handlings)
C10_NoCommitPastFailedEvent ==
  \A o \in Offsets :
    (o < committed /\ ValidRecord(log[o])) =>
      (okCount[o] >= 1 \/ o \in poisoned)

\* the in-memory idempotency check of instance p is stale: rows of its
\* event were committed after it read existing_channels
Stale(p) ==
  existing_channels[p] #
    {n.channel : n \in RowsOfEvent(Raw(p).event_id)}

\* a step that changes the committed rows is the commit of one instance's
\* transaction, and that instance's check is not stale
C9_CommitStep ==
  notifications' # notifications =>
    \E p \in procs :
      /\ notifications' = notifications \cup RowsOf(txRows[p])
      /\ ~Stale(p)

\* C9: with two instances handling the same event at once, the store never
\* holds two rows of one (source_event_id, channel), and an execution whose
\* existing_channels is stale commits no notification row
C9_UniquePerEventChannel ==
  /\ [](\A n \in notifications : \A m \in notifications :
          (n.source_event_id = m.source_event_id /\ n.channel = m.channel)
            => n.id = m.id)
  /\ [][C9_CommitStep]_vars

\* both instances read existing_channels before either committed, one has
\* committed its rows, and the create of the other has failed on the
\* constraint (no fault was injected and the user has a preference row, so
\* the recorded failure is the constraint's)
C9_Witness ==
  \E p \in procs : \E o \in Offsets :
    /\ faults = 0
    /\ user_preferences[1].channels = {"sms", "push"}
    /\ failure_counts[p][o] >= 1
    /\ ValidRecord(log[o])
    /\ RowsOfEvent(log[o].event_id) # {}
    /\ okCount[o] >= 1

(***************************************************************************)
(* Delivery Engine properties.                                             *)
(***************************************************************************)
NotificationIds == {n.id : n \in notifications}

\* C2: for every notification the status is set to delivered (and
\* delivered_at written) at most once, over all send_notification
\* executions of it
C2_DeliveredOnce ==
  \A id \in NotificationIds : CopiesIn(id, deliveredWrites) <= 1

\* the fields a terminal notification keeps
SameOutcome(n, m) ==
  /\ m.status = n.status
  /\ m.attempts = n.attempts
  /\ m.delivered_at = n.delivered_at
  /\ m.failed_reason = n.failed_reason
  /\ m.next_retry_at = n.next_retry_at

\* C3: no step changes status, attempts, delivered_at, failed_reason or
\* next_retry_at of a notification whose committed status is delivered, or
\* failed with attempts >= max_attempts
C3_TerminalIsFinal ==
  [][\A n \in notifications :
       Terminal(n) =>
         \A m \in notifications' : m.id = n.id => SameOutcome(n, m)]_vars

\* C4: every notification has attempts <= max_attempts, and one with
\* attempts = max_attempts has status failed
C4_AttemptsBounded ==
  \A n \in notifications :
    /\ n.attempts <= n.max_attempts
    /\ n.attempts = n.max_attempts => n.status = "failed"

\* C8: a notification whose provider calls all succeeded has had at most
\* one provider call, however many work items of it were delivered
C8_OneProviderCall ==
  \A id \in NotificationIds :
    (CopiesIn(<<id, "failure">>, sends) = 0
     /\ CopiesIn(<<id, "exception">>, sends) = 0)
      => CopiesIn(<<id, "success">>, sends) <= 1

\* the entries of a history of <<channel, time>> pairs that fall in the
\* rolling window (t - window_seconds, t]
RECURSIVE InWindowFrom(_, _, _, _)
InWindowFrom(history, channel, s, t) ==
  IF s > t THEN 0
  ELSE (IF s >= 0 THEN CopiesIn(<<channel, s>>, history) ELSE 0)
       + InWindowFrom(history, channel, s + 1, t)

InWindow(history, channel, t) ==
  InWindowFrom(history, channel, t - window_seconds + 1, t)

RECURSIVE TotalFrom(_, _, _)
TotalFrom(history, channel, s) ==
  IF s > MaxTime THEN 0
  ELSE CopiesIn(<<channel, s>>, history) + TotalFrom(history, channel, s + 1)

Total(history, channel) == TotalFrom(history, channel, 0)

C11_EnqueueAfterCommit ==
  \A item \in BagToSet(queue) : HasRow(item.notification_id)

\* the step in which worker w calls acquire and finds the coordination
\* store unavailable
AcquireStoreDown(w) ==
  /\ wpc[w] = "acquire"
  /\ wpc'[w] # "acquire"
  /\ faults' = faults + 1

\* C12: an acquire that finds the store unavailable returns false: the
\* execution goes on to revert the notification to pending and requeue the
\* work item (it does not end there), and it makes no provider call
C12_FailClosed ==
  [][\A w \in Workers :
       AcquireStoreDown(w) =>
         /\ wpc'[w] = "revert"
         /\ wItem'[w] = wItem[w]
         /\ sends' = sends]_vars

\* worker w takes a step of its execution from position "from"
StepFrom(w, from) == wpc[w] = from /\ wpc'[w] # from

\* the committed row of the notification worker w executes, before and
\* after the step, differ at most in status
OnlyStatusWritten(w) ==
  \A n \in notifications : \A m \in notifications' :
    (n.id = wMem[w].id /\ m.id = n.id) =>
      /\ m.attempts = n.attempts
      /\ m.delivered_at = n.delivered_at
      /\ m.failed_reason = n.failed_reason
      /\ m.next_retry_at = n.next_retry_at

\* C13: an execution whose acquire returns false writes status pending and
\* nothing else to the notification, calls no provider, publishes no
\* status, and enqueues exactly one work item of the same notification_id
\* with a countdown of _RATE_LIMIT_RETRY_SECONDS
C13_RateLimitedFrame ==
  [][\A w \in Workers :
       /\ (StepFrom(w, "acquire") /\ wpc'[w] = "revert") =>
            /\ notifications' = notifications
            /\ queue' = queue
            /\ sends' = sends
            /\ statusTopic' = statusTopic
       /\ StepFrom(w, "revert") =>
            /\ wpc'[w] = "requeue_rate_limited"
            /\ \A m \in notifications' :
                 m.id = wMem[w].id => m.status = "pending"
            /\ OnlyStatusWritten(w)
            /\ queue' = queue
            /\ sends' = sends
            /\ statusTopic' = statusTopic
       /\ StepFrom(w, "requeue_rate_limited") =>
            /\ wpc'[w] = "idle"
            /\ notifications' = notifications
            /\ queue' = queue (+) SetToBag({[wItem[w] EXCEPT
                           !.notification_id = wMem[w].id,
                           !.queue = "normal",
                           !.eta = NoTime,
                           !.countdown = _RATE_LIMIT_RETRY_SECONDS]})
            /\ sends' = sends
            /\ statusTopic' = statusTopic]_vars

\* a rate-limited execution has returned: its notification is pending with
\* no attempt counted, and the requeued work item waits in the queue
C13_Witness ==
  /\ \A w \in Workers : wpc[w] = "idle"
  /\ \E item \in BagToSet(queue) :
       /\ item.countdown = _RATE_LIMIT_RETRY_SECONDS
       /\ HasRow(item.notification_id)
       /\ Row(item.notification_id).status = "pending"
       /\ Row(item.notification_id).attempts = 0
       /\ BagCardinality(queue) = 1

\* the status records published for a notification with a given status
RECURSIVE PublishedUpTo(_, _, _)
PublishedUpTo(i, id, status) ==
  IF i = 0 THEN 0
  ELSE PublishedUpTo(i - 1, id, status)
       + (IF statusTopic[i].notification_id = id
             /\ statusTopic[i].status = status THEN 1 ELSE 0)

Published(id, status) == PublishedUpTo(Len(statusTopic), id, status)

\* no worker is executing a work item of the notification
Quiescent(id) == \A w \in Workers : wpc[w] = "idle" \/ wItem[w].notification_id # id

\* the notification has had exactly max_attempts provider calls, one per
\* work item in turn (no redelivered duplicate, no task ended by an
\* exception), and each returned success = false
FailedEveryAttempt(n) ==
  /\ redeliveries = 0
  /\ faults = 0
  /\ CopiesIn(<<n.id, "failure">>, sends) = n.max_attempts
  /\ CopiesIn(<<n.id, "success">>, sends) = 0
  /\ CopiesIn(<<n.id, "exception">>, sends) = 0
  /\ Quiescent(n.id)

\* C14: after max_attempts consecutive executions whose provider call
\* returned success = false, the notification has attempts = max_attempts,
\* status failed and a failed_reason taken from a result, one failed and no
\* delivered status record is published, and no work item of it is queued;
\* the execution that commits failed writes the details of its own (the
\* last) result as failed_reason
C14_ExhaustedRetries ==
  /\ [](\A n \in notifications :
          FailedEveryAttempt(n) =>
            /\ n.attempts = n.max_attempts
            /\ n.status = "failed"
            /\ n.failed_reason \in Details
            /\ Published(n.id, "failed") = 1
            /\ Published(n.id, "delivered") = 0
            /\ \A item \in BagToSet(queue) : item.notification_id # n.id)
  /\ [][\A w \in Workers :
          (StepFrom(w, "result") /\ wpc'[w] = "publish_failed"
           /\ wResult[w].kind = "result") =>
            \A m \in notifications' :
              m.id = wMem[w].id => m.failed_reason = wResult[w].details]_vars

\* three failed sends in turn, the last with details other than "Timeout"
C14_Witness ==
  \E n \in notifications :
    /\ FailedEveryAttempt(n)
    /\ n.max_attempts = DefaultMaxAttempts
    /\ n.failed_reason = "Rejected"
    /\ n.status = "failed"

\* C15: the loop counts the failed handlings of a record per offset, the
\* count stays below MAX_HANDLER_RETRIES (it is cleared when the threshold
\* is reached), and while a record has a pending count (1 .. threshold-1
\* failures) the committed offset is not past it
C15_PoisonPill ==
  \A p \in procs : \A o \in Offsets :
    /\ failure_counts[p][o] < MAX_HANDLER_RETRIES
    /\ failure_counts[p][o] >= 1 => committed <= o

\* a record that is not decodable, has an unknown event_type, or whose
\* payload fails validation
InvalidRecord(raw) ==
  \/ ~raw.decodable
  \/ raw.event_type \notin KnownEventTypes
  \/ ~raw.valid

\* the steps of instance p on an invalid record: the poll that delivers it
\* leads straight to the commit, the commit moves the committed offset
\* past it, and neither touches the store, the queue or the status topic
C16_SkipStep(p) ==
  /\ (pc[p] = "poll" /\ pc'[p] # "poll" /\ InvalidRecord(log[msg'[p]])) =>
       /\ pc'[p] = "commit"
       /\ msg'[p] >= committed
       /\ UNCHANGED <<notifications, user_preferences, queue, statusTopic,
                      txRows, txPref, nextId>>
  /\ (pc[p] = "commit" /\ pc'[p] # "commit" /\ InvalidRecord(log[msg[p]])) =>
       /\ committed' = msg[p] + 1
       /\ UNCHANGED <<notifications, user_preferences, queue, statusTopic,
                      txRows, txPref, nextId>>

\* C16: an invalid record is committed past on its first delivery and not
\* delivered again (once polled it is being committed or is behind the
\* committed offset, which never moves back), and it creates no
\* notification row, preference row, work item or status record
C16_InvalidSkipped ==
  /\ [](\A p \in procs : \A o \in Offsets :
          (InvalidRecord(log[o]) /\ pos[p] > o) =>
            (committed > o \/ (pc[p] = "commit" /\ msg[p] = o)))
  /\ [](\A n \in AllRows : \A o \in Offsets :
          n.source_event_id = log[o].event_id => ~InvalidRecord(log[o]))
  /\ [][/\ committed' >= committed
        /\ \A p \in procs : C16_SkipStep(p)]_vars

\* the channels of an event type whose active template fails to render
BrokenChannels(event_type) ==
  {c \in Channels : templates[event_type][c] = "broken"}

\* the notification of (event, channel) is stored, its work item queued
\* and its pending status published
FullyCreated(event_id, channel) ==
  \E n \in RowsOfEvent(event_id) :
    /\ n.channel = channel
    /\ \E item \in BagToSet(queue) : item.notification_id = n.id
    /\ \E i \in DOMAIN statusTopic :
         /\ statusTopic[i].notification_id = n.id
         /\ statusTopic[i].status = "pending"

\* C17: a channel whose template fails to render gets no notification row
\* and no status, and the render failure does not end the handling: the
\* loop goes on with the next template, nothing created or enqueued; once
\* a handling of the event has returned (no store or broker fault), every
\* other enabled channel with a rendering template has its row, work item
\* and pending status
C17_RenderFailureSkipsChannel ==
  /\ [](/\ \A n \in AllRows :
             n.channel \notin BrokenChannels(n.source_event_type)
        /\ \A i \in DOMAIN statusTopic :
             statusTopic[i].channel
               \notin BrokenChannels(statusTopic[i].event_type)
        /\ \A o \in Offsets :
             (okCount[o] >= 1 /\ faults = 0) =>
               \A c \in EnabledChannels(log[o].user_id)
                        \cap RenderedChannels(log[o].event_type) :
                 FullyCreated(log[o].event_id, c))
  /\ [][\A p \in procs :
          (/\ pc[p] = "loop"
           /\ todo[p] # <<>>
           /\ Head(todo[p]) \in BrokenChannels(log[msg[p]].event_type)
           /\ todo'[p] # todo[p]) =>
            /\ pc'[p] = "loop"
            /\ todo'[p] = Tail(todo[p])
            /\ UNCHANGED <<notifications, queue, statusTopic, txRows,
                           failure_counts>>]_vars

\* an event with one rendering and one failing template, both channels
\* enabled, was handled to its return: the rendering channel is complete
C17_Witness ==
  \E o \in Offsets :
    /\ okCount[o] >= 1
    /\ faults = 0
    /\ "push" \in BrokenChannels(log[o].event_type)
    /\ "push" \in EnabledChannels(log[o].user_id)
    /\ "email" \in EnabledChannels(log[o].user_id)
    /\ FullyCreated(log[o].event_id, "email")

\* C18: every committed notification row has delivered_at set exactly when
\* its status is delivered
C18_DeliveredAtIffDelivered ==
  \A n \in notifications :
    (n.delivered_at # NoTime) <=> (n.status = "delivered")

\* C19: every committed row with status failed has attempts >= max_attempts,
\* and every committed row with a failed_reason has status failed
C19_FailedMeansExhausted ==
  \A n \in notifications :
    /\ n.status = "failed" => n.attempts >= n.max_attempts
    /\ n.failed_reason # NoReason => n.status = "failed"

\* C20: no step lowers the committed attempts of a notification
C20_AttemptsMonotone ==
  [][\A n \in notifications :
       \A m \in notifications' : m.id = n.id => m.attempts >= n.attempts]_vars

\* C21: every work item in the work queue of a stored notification carries
\* the queue label equal to that notification's priority, the items the
\* Delivery Engine re-enqueues included
C21_QueueLabelIsPriority ==
  \A item \in BagToSet(queue) :
    \A n \in notifications :
      n.id = item.notification_id => item.queue = n.priority

\* the step in which handle builds a notification and sends its work item
CreateStep(p) == pc[p] = "loop" /\ queue' # queue

\* the work item that step added
NewItem ==
  CHOOSE item \in BagToSet(queue') :
    CopiesIn(item, queue') > CopiesIn(item, queue)

\* the local time of day of the clock reading of that step
LocalTimeOfDay(p) == (now' + preferences[p].timezone) % DaySeconds

\* C22: calculate_eta returns null when a quiet-hours bound is null; with
\* both bounds set it returns a timestamp exactly when the local time t
\* satisfies start <= t < end (start <= end) or t >= start or t < end
\* (start > end); with start = end it never defers
C22_DefersIffInQuietHours ==
  [][\A p \in procs :
       CreateStep(p) =>
         LET start == preferences[p].quiet_hours_start
             end == preferences[p].quiet_hours_end
             t == LocalTimeOfDay(p)
         IN IF start = NoTime \/ end = NoTime THEN NewItem.eta = NoTime
            ELSE /\ (NewItem.eta # NoTime) <=>
                      IF start <= end THEN start <= t /\ t < end
                      ELSE t >= start \/ t < end
                 /\ start = end => NewItem.eta = NoTime]_vars

\* a work item was deferred under quiet hours that wrap around midnight, at
\* a local time before the end, in a timezone off UTC
C22_Witness ==
  /\ pc[1] = "loop"
  /\ preferences[1].quiet_hours_start # NoTime
  /\ preferences[1].quiet_hours_end # NoTime
  /\ preferences[1].quiet_hours_start > preferences[1].quiet_hours_end
  /\ preferences[1].timezone # 0
  /\ (now + preferences[1].timezone) % DaySeconds
       < preferences[1].quiet_hours_end
  /\ \E item \in BagToSet(queue) : item.eta # NoTime

\* C23: a timestamp returned by calculate_eta is the next occurrence of the
\* quiet-hours end in the user's timezone: the same local day if end is
\* later than the current local time, else the next day; it is strictly
\* after now, at most 24 hours after now, and its local time of day is end
C23_NextOccurrenceOfEnd ==
  [][\A p \in procs :
       (CreateStep(p) /\ NewItem.eta # NoTime) =>
         LET end == preferences[p].quiet_hours_end
             tz == preferences[p].timezone
             t == LocalTimeOfDay(p)
             midnight == (now' + tz) - t
             next_end == IF end > t THEN midnight + end
                         ELSE midnight + DaySeconds + end
         IN /\ NewItem.eta + tz = next_end
            /\ NewItem.eta > now'
            /\ NewItem.eta <= now' + DaySeconds
            /\ (NewItem.eta + tz) % DaySeconds = end]_vars

\* the step adds a member to ratelimit:<channel>: a slot is consumed
SlotConsumed(channel) ==
  CopiesIn(now, zset'[channel]) > CopiesIn(now, zset[channel])

\* C24: every acquire that returned true is followed in its execution by
\* exactly one provider call (the granted acquires are the provider calls
\* made plus the executions standing right before their call); a slot is
\* consumed only by an acquire that returns true and goes on to the
\* provider; an execution that stops at the missing-row or terminal-state
\* gate touches neither the rate-limit store nor the grants
C24_SlotOnlyWhenSending ==
  /\ [](BagCardinality(grantTimes)
          = BagCardinality(sends)
            + Cardinality({w \in Workers : wpc[w] = "send"}))
  /\ [][\A c \in Channels :
          SlotConsumed(c) =>
            \E w \in Workers :
              /\ wpc[w] = "acquire"
              /\ wpc'[w] = "send"
              /\ wMem[w].channel = c
              /\ grantTimes' = grantTimes (+) SetToBag({<<c, now>>})]_vars
  /\ [][(wpc' = wpc /\ BagCardinality(queue') < BagCardinality(queue)) =>
          /\ zset' = zset
          /\ expireAt' = expireAt
          /\ grantTimes' = grantTimes
          /\ sends' = sends]_vars

\* two acquires were granted and each was followed by its provider call,
\* and the work item of the missing row was consumed at the gate
C24_Witness ==
  /\ BagCardinality(grantTimes) >= 2
  /\ BagCardinality(sends) = BagCardinality(grantTimes)
  /\ \A item \in BagToSet(queue) : item.notification_id # 2
  /\ \A w \in Workers : wItem[w].notification_id # 2

\* C25: the termination signal only clears the flag; the loop ends only at
\* its head (never inside an event, so never between the store commit and
\* the offset commit); once the flag is seen cleared at the loop head no
\* record is polled; and when the loop has ended every event whose handling
\* returned has its offset committed
C25_CooperativeShutdown ==
  /\ [][running' # running =>
          UNCHANGED <<log, committed, owner, procs, rebalances, faults, pc,
                      pos, msg, failure_counts, existing_channels,
                      preferences, todo, created_notifications, txRows,
                      txPref, toPublish, okCount, poisoned, storeVars,
                      busVars>>]_vars
  /\ [][\A p \in procs :
          (pc[p] # "stopped" /\ pc'[p] = "stopped") =>
            pc[p] = "poll" /\ ~running[p]]_vars
  /\ [][\A p \in procs :
          (pc[p] = "poll" /\ ~running[p]) =>
            /\ pc'[p] \in {"poll", "stopped"}
            /\ msg'[p] = msg[p]
            /\ UNCHANGED <<storeVars, busVars, committed>>]_vars
  /\ [](\A p \in procs :
          pc[p] = "stopped" =>
            \A o \in Offsets : okCount[o] >= 1 => committed > o)

\* the signal has arrived while an event is between its store commit and
\* its offset commit
C25_Witness ==
  /\ ~running[1]
  /\ pc[1] = "commit"
  /\ okCount[msg[1]] >= 1
  /\ committed <= msg[1]
  /\ \E n \in notifications : n.source_event_id = log[msg[1]].event_id

\* C26: an execution that found no preference row leaves create_default
\* into the template loop of the same handling, holding the default row
\* (its own insert, or the row another execution has committed meanwhile),
\* with no failure counted; the user has one preference row, the default
C26_PreferenceRaceContinues ==
  [][\A p \in procs :
       (pc[p] = "create_default" /\ pc'[p] # "create_default") =>
         /\ pc'[p] = "loop"
         /\ preferences'[p] = DefaultPreference
         /\ failure_counts' = failure_counts
         /\ msg'[p] = msg[p]]_vars

\* the rate limiter denies an acquire
DenialStep == \E w \in Workers : wpc[w] = "acquire" /\ wpc'[w] = "revert"

\* the notification is stored in a terminal state; delivered, when no
\* provider call of it failed
ReachedTerminal(id) ==
  /\ HasRow(id)
  /\ Terminal(Row(id))
  /\ (\A s \in BagToSet(sends) : s[1] = id => s[2] = "success")
       => Row(id).status = "delivered"

\* C27: with the loop, the worker and the clock scheduled fairly and the
\* rate limiter denying only finitely often, every notification the Event
\* Processor committed eventually is in a terminal state (delivered, when
\* the provider always succeeded), whenever the worker picked up its work
\* item relative to the store commit
C27_EventuallyTerminal ==
  <>[][~DenialStep]_vars =>
    \A id \in 1..LogLen : [](HasRow(id) => <>ReachedTerminal(id))

\* the event a work item belongs to: the source event of its notification
EventOfItem(item) ==
  {n.source_event_id : n \in {m \in AllRows : m.id = item.notification_id}}

\* C28: handle creates each notification at once with status pending and
\* sends its work item with eta = calculate_eta(...) (no eta when quiet
\* hours do not apply), and all work items of one event carry the same
\* quiet-hours decision: all deferred or none
C28_QuietHoursDeferAll ==
  /\ [][\A p \in procs :
          CreateStep(p) =>
            /\ NewItem.eta =
                 calculate_eta(preferences[p].quiet_hours_start,
                               preferences[p].quiet_hours_end,
                               preferences[p].timezone, now')
            /\ \E n \in RowsOf(txRows'[p]) :
                 n.id = NewItem.notification_id /\ n.status = "pending"]_vars
  /\ [](\A i, j \in BagToSet(queue) :
          EventOfItem(i) = EventOfItem(j) =>
            (i.eta = NoTime <=> j.eta = NoTime))

\* the transitions of the notification state machine
Transitions ==
  { <<"pending", "sending">>, <<"sending", "delivered">>,
    <<"sending", "pending">>, <<"sending", "failed">> }

\* C29: every step of the Delivery Engine that changes the committed status
\* of a notification takes it along one of the state machine's
\* transitions, with failed written only when attempts reach max_attempts
\* and pending after a failure only below it
C29_OnlyStateMachineTransitions ==
  [][\A n \in notifications : \A m \in notifications' :
       (m.id = n.id /\ m.status # n.status) =>
         /\ <<n.status, m.status>> \in Transitions
         /\ m.status = "failed" => m.attempts >= m.max_attempts]_vars

\* the delay the schedule 60s, 300s, 900s gives the attempt, the last
\* value reused beyond it
ScheduledDelay(new_attempts) ==
  IF new_attempts = 1 THEN 60 ELSE IF new_attempts = 2 THEN 300 ELSE 900

\* C30: an execution whose provider attempt failed with new_attempts =
\* attempts + 1 < max_attempts commits status pending, attempts = the
\* loaded attempts + 1 and next_retry_at = now, publishes no status record,
\* calls no provider again, and enqueues exactly one work item of the
\* notification with countdown backoff[min(new_attempts - 1, len - 1)]
C30_RetryableFailure ==
  [][\A w \in Workers :
       /\ (StepFrom(w, "result") /\ ~Succeeded(w)
           /\ wMem[w].attempts + 1 < wMem[w].max_attempts) =>
            /\ wpc'[w] = "requeue_retry"
            /\ \A m \in notifications' :
                 m.id = wMem[w].id =>
                   /\ m.status = "pending"
                   /\ m.attempts = wMem[w].attempts + 1
                   /\ m.next_retry_at = now
            /\ queue' = queue
            /\ sends' = sends
            /\ statusTopic' = statusTopic
       /\ StepFrom(w, "requeue_retry") =>
            /\ wpc'[w] = "idle"
            /\ notifications' = notifications
            /\ \E item \in BagToSet(queue') :
                 /\ queue' = queue (+) SetToBag({item})
                 /\ item.notification_id = wMem[w].id
                 /\ item.eta = NoTime
                 /\ item.countdown = ScheduledDelay(wMem[w].attempts)
            /\ sends' = sends
            /\ statusTopic' = statusTopic
       /\ \A a \in 1..(Len(retry_backoff_seconds) + 2) :
            _get_backoff(a, retry_backoff_seconds) = ScheduledDelay(a)]_vars

\* the second failed attempt of a notification was committed as pending
\* with attempts 2 and its retry waits in the queue with the second delay
C30_Witness ==
  /\ \A w \in Workers : wpc[w] = "idle"
  /\ \E n \in notifications :
       /\ n.status = "pending"
       /\ n.attempts = 2
       /\ n.next_retry_at # NoTime
       /\ \E item \in BagToSet(queue) :
            item.notification_id = n.id /\ item.countdown = 300
  /\ statusTopic = <<>>

\* worker w stands after a provider call that raised
Raised(w) == wpc[w] = "result" /\ wResult[w].kind = "exception"

\* C31: an exception of the provider lookup or send is caught: the
\* execution goes on as after success = false, counting one attempt; with
\* attempts + 1 < max_attempts it commits pending and goes to the requeue,
\* otherwise it commits failed with the reason "Provider exception" and
\* goes to the publish; it never ends at the exception
C31_ProviderExceptionIsFailure ==
  [][\A w \in Workers :
       (Raised(w) /\ wpc'[w] # "result") =>
         /\ CopiesIn(<<wMem[w].id, "exception">>, sends) >= 1
         /\ \A m \in notifications' :
              m.id = wMem[w].id => m.attempts = wMem[w].attempts + 1
         /\ IF wMem[w].attempts + 1 < wMem[w].max_attempts
            THEN /\ wpc'[w] = "requeue_retry"
                 /\ \A m \in notifications' :
                      m.id = wMem[w].id => m.status = "pending"
            ELSE /\ wpc'[w] = "publish_failed"
                 /\ \A m \in notifications' :
                      m.id = wMem[w].id =>
                        /\ m.status = "failed"
                        /\ m.failed_reason = "Provider exception"]_vars

\* the provider raised on the last attempt: the notification is failed
\* with the generic reason and its failed status was published
C31_Witness ==
  \E n \in notifications :
    /\ n.status = "failed"
    /\ n.attempts = n.max_attempts
    /\ n.failed_reason = "Provider exception"
    /\ CopiesIn(<<n.id, "exception">>, sends) >= 1
    /\ Published(n.id, "failed") >= 1
    /\ Quiescent(n.id)

\* the step takes a copy of the work item out of the work queue
Taken(item) == CopiesIn(item, queue') < CopiesIn(item, queue)

\* the step leaves the store, the rate limiter, the provider and the
\* status topic alone, and the worker that took the item is idle again
DiscardOnly(item) ==
  /\ queue' = queue (-) SetToBag({item})
  /\ wpc' = wpc
  /\ wMem' = wMem
  /\ notifications' = notifications
  /\ zset' = zset
  /\ expireAt' = expireAt
  /\ grantTimes' = grantTimes
  /\ sends' = sends
  /\ statusTopic' = statusTopic

\* C32: the execution of a work item whose notification_id matches no row
\* returns at once: the item is gone, and no notification row, rate-limit
\* entry, provider call, status record or work item is written
C32_MissingRowIsNoOp ==
  [][\A item \in BagToSet(queue) :
       (Taken(item) /\ ~HasRow(item.notification_id)) =>
         DiscardOnly(item)]_vars

\* the work item of the missing row was executed and nothing else happened
C32_Witness ==
  /\ \A item \in BagToSet(queue) : item.notification_id = 1
  /\ BagCardinality(queue) = 1
  /\ \A w \in Workers : wpc[w] = "idle"
  /\ \A n \in notifications : n.status = "pending" /\ n.attempts = 0
  /\ sends = EmptyBag
  /\ grantTimes = EmptyBag
  /\ statusTopic = <<>>

\* C33: an execution that loads a notification with status delivered, or
\* failed with attempts >= max_attempts, returns at once: the row is
\* unchanged, no rate-limit slot is taken, no provider is called, no status
\* is published and no work item is enqueued
C33_TerminalGateNoSideEffects ==
  [][\A item \in BagToSet(queue) : \A n \in notifications :
       (/\ Taken(item)
        /\ n.id = item.notification_id
        /\ \/ n.status = "delivered"
           \/ n.status = "failed" /\ n.attempts >= n.max_attempts) =>
         DiscardOnly(item)]_vars

\* a permanently failed notification whose redelivered work item has been
\* executed: still failed after three provider calls, one status published
C33_Witness ==
  /\ redeliveries = 1
  /\ faults = 0
  /\ \A w \in Workers : wpc[w] = "idle"
  /\ \A item \in BagToSet(queue) : item.notification_id # 1
  /\ \E n \in notifications :
       /\ n.id = 1
       /\ n.status = "failed"
       /\ n.attempts = n.max_attempts
       /\ CopiesIn(<<1, "failure">>, sends) = n.max_attempts
       /\ Published(1, "failed") = 1

\* C34: handle publishes exactly one pending status record for each
\* notification it created in that call, and only after the transaction
\* that created it has committed: every pending record names a committed
\* row, a record is published only by a handling that stands after its
\* commit, for the notification it is at, and once no handling holds a
\* committed notification any more it has exactly one pending record; a
\* failed transaction and a replay that creates nothing publish nothing
C34_OnePendingStatusPerCreated ==
  /\ [](\A i \in DOMAIN statusTopic :
          \E n \in notifications : n.id = statusTopic[i].notification_id)
  /\ [](\A n \in notifications :
          IF \E p \in procs : n \in RowsOf(toPublish[p])
          THEN Published(n.id, "pending") <= 1
          ELSE Published(n.id, "pending") = 1)
  /\ [][statusTopic' # statusTopic =>
          \E p \in procs :
            /\ pc[p] = "publish"
            /\ toPublish[p] # <<>>
            /\ statusTopic' =
                 Append(statusTopic,
                        StatusRecord(Head(toPublish[p]), "pending"))]_vars

\* C35: over any interleaving of work items the Delivery Engine publishes
\* at most one terminal status record (delivered or failed) for each
\* notification; every record it publishes is terminal (nothing for the
\* sending, retry and rate-limit transitions); and a record is published
\* in a step of its own that writes no row, for a row of the store, a
\* delivered record only after a delivered status has been committed
C35_AtMostOneTerminalRecord ==
  /\ [](\A id \in NotificationIds :
          Published(id, "delivered") + Published(id, "failed") <= 1)
  /\ [](\A i \in DOMAIN statusTopic :
          statusTopic[i].status \in {"delivered", "failed"})
  /\ [][statusTopic' # statusTopic =>
          /\ Len(statusTopic') = Len(statusTopic) + 1
          /\ LET rec == statusTopic'[Len(statusTopic')]
             IN  /\ HasRow(rec.notification_id)
                 /\ notifications' = notifications
                 /\ rec.status = "delivered" =>
                      CopiesIn(rec.notification_id, deliveredWrites) >= 1]_vars

\* the entries of ratelimit:<channel> younger than the window at time now
YoungEntries(channel) ==
  [s \in {x \in DOMAIN zset[channel] : x + window_seconds > now}
     |-> zset[channel][s]]

\* C36: one acquire(channel) call at time now is a single step on
\* ratelimit:<channel> that removes every entry with score
\* <= now - window_seconds; if the entries left are at least the channel's
\* limit it returns false and inserts nothing (the expiry stays); otherwise
\* it inserts exactly one member with score now, sets the expiry to
\* window_seconds + 1 from now and returns true; the sorted sets and
\* expiries of the other channels are unchanged
C36_AcquireScript ==
  [][\A w \in Workers :
       (wpc[w] = "acquire" /\ wpc'[w] \in {"send", "revert"}) =>
         LET c == wMem[w].channel
         IN  /\ IF BagCardinality(YoungEntries(c)) >= limit_for_channel(c)
                THEN /\ wpc'[w] = "revert"
                     /\ zset'[c] = YoungEntries(c)
                     /\ expireAt'[c] = expireAt[c]
                ELSE /\ wpc'[w] = "send"
                     /\ zset'[c] = YoungEntries(c) (+) SetToBag({now})
                     /\ expireAt'[c] = now + window_seconds + 1
             /\ \A d \in Channels \ {c} :
                  /\ zset'[d] = zset[d]
                  /\ expireAt'[d] = expireAt[d]
             /\ now' = now]_vars

\* an acquire has returned true after its script removed an entry that had
\* left the window, and another has returned false
C36_Witness ==
  /\ \E w \in Workers :
       /\ wpc[w] = "send"
       /\ CopiesIn(now, zset[wMem[w].channel]) >= 1
       /\ \E t \in 0..MaxTime :
            /\ t + window_seconds <= now
            /\ CopiesIn(<<wMem[w].channel, t>>, grantTimes) >= 1
            /\ CopiesIn(t, zset[wMem[w].channel]) = 0
  /\ \E w \in Workers : wpc[w] = "revert"

\* the notification rows a handle call has created so far
CreatedBy(p) ==
  {created_notifications[p][i] : i \in DOMAIN created_notifications[p]}

\* C37: all the notification rows, and the default preference row if any,
\* that one handle call produces are committed in a single transaction:
\* at every point, and so after the call has returned or raised at any
\* step, the store holds every row the call created or none of them; the
\* store changes only in one step that makes all the rows of one open
\* transaction, with its preference row, durable together; and a call
\* that ends without that step leaves the store as it was
C37_AllOrNothing ==
  /\ [](\A p \in Procs :
          \/ CreatedBy(p) \subseteq notifications
          \/ CreatedBy(p) \cap notifications = {})
  /\ [][(notifications' # notifications
           \/ user_preferences' # user_preferences) =>
          \E p \in procs :
            /\ notifications' = notifications \cup CreatedBy(p)
            /\ \A u \in Users :
                 user_preferences'[u] # user_preferences[u] =>
                   /\ txPref[p] = u
                   /\ user_preferences'[u] = DefaultPreference
            /\ txPref[p] # 0 => user_preferences'[txPref[p]].present
            /\ txRows'[p] = <<>>
            /\ txPref'[p] = 0]_vars
  /\ [][\A p \in Procs :
          (pc[p] \in {"existing", "prefs", "create_default", "loop"}
             /\ pc'[p] \in {"poll", "commit", "stopped"}
             /\ created_notifications[p] # <<>>) =>
            /\ notifications' = notifications
            /\ user_preferences' = user_preferences
            /\ CreatedBy(p) \cap notifications' = {}]_vars

\* a handle call has committed two notification rows and the default
\* preference row of its user in one transaction
C37_Witness ==
  \E p \in Procs :
    /\ pc[p] = "publish"
    /\ Cardinality(CreatedBy(p)) >= 2
    /\ CreatedBy(p) \subseteq notifications
    /\ \E n \in CreatedBy(p) : user_preferences[n.user_id] = DefaultPreference

\* the rows the last call had to consider: pending or failed,
\* due, and with attempts left
DueForRetry ==
  {n \in notifications :
     /\ n.status \in {"pending", "failed"}
     /\ n.next_retry_at # NoTime
     /\ n.next_retry_at <= retry_call.now
     /\ n.attempts < n.max_attempts}

\* C38: the list get_pending_retries(now, limit) returned holds only rows
\* that are pending or failed, with a non-null next_retry_at <= now and
\* attempts < max_attempts (never a delivered, sending or exhausted row),
\* each once, in ascending order of next_retry_at; it has limit entries, or
\* all the due rows when they are fewer; and no due row left out comes
\* before a returned one
C38_PendingRetries ==
  retry_call # NoCall =>
    /\ \A i \in DOMAIN pending_retries : pending_retries[i] \in DueForRetry
    /\ \A i, j \in DOMAIN pending_retries :
         i < j =>
           /\ pending_retries[i] # pending_retries[j]
           /\ pending_retries[i].next_retry_at
                <= pending_retries[j].next_retry_at
    /\ Len(pending_retries) =
         (IF Cardinality(DueForRetry) <= retry_call.limit
          THEN Cardinality(DueForRetry) ELSE retry_call.limit)
    /\ \A n \in DueForRetry :
         (\A i \in DOMAIN pending_retries : pending_retries[i] # n) =>
           \A i \in DOMAIN pending_retries :
             pending_retries[i].next_retry_at <= n.next_retry_at
    /\ \A i \in DOMAIN pending_retries :
         /\ pending_retries[i].status \notin {"delivered", "sending"}
         /\ pending_retries[i].attempts < pending_retries[i].max_attempts

\* a call has returned its limit of rows in order, leaving out a due row
\* and beside rows that are delivered, exhausted or without retry time
C38_Witness ==
  /\ retry_call.limit = MaxLimit
  /\ Len(pending_retries) = MaxLimit
  /\ pending_retries[1].next_retry_at < pending_retries[2].next_retry_at
  /\ Cardinality(DueForRetry) > MaxLimit

\* C39: no send_notification execution ends with the notification left in
\* status sending: when an execution returns or raises and no other
\* execution is working on the same notification, the row's committed
\* status is not sending
C39_NeverLeftSending ==
  [][\A w \in Workers :
       (/\ wpc[w] # "idle"
        /\ wpc'[w] = "idle"
        /\ HasRow(wItem[w].notification_id)
        /\ \A v \in Workers \ {w} :
             wpc[v] = "idle"
               \/ wItem[v].notification_id # wItem[w].notification_id) =>
         \E n \in notifications' :
           /\ n.id = wItem[w].notification_id
           /\ n.status # "sending"]_vars

\* C40: in every reachable state each committed notification whose status
\* is pending or sending has at least one work item for its id that is
\* queued (delayed or not) or being executed by a worker
C40_LiveRowHasWorkItem ==
  \A n \in notifications :
    n.status \in {"pending", "sending"} =>
      \/ \E item \in BagToSet(queue) : item.notification_id = n.id
      \/ \E w \in Workers :
           wpc[w] # "idle" /\ wItem[w].notification_id = n.id

============================================================================
